---- MODULE Spec2Model ----
(***************************************************************************)
(* Order ledger (src/db/database.py, src/api/routes/options.py,            *)
(* src/api/services/options_service.py) and holdings cache                 *)
(* (src/api/services/portfolio_service.py) of AllYouNeedIsWheel.           *)
(*                                                                         *)
(* Database methods and request handlers are operators over the database   *)
(* value db = [rows, seq, up, locked, column_names]; each action applies   *)
(* one handler. rows maps ids to rows, seq is the AUTOINCREMENT sequence,  *)
(* up says whether the storage accepts statements, locked whether a leaked *)
(* connection holds the write lock, column_names is the orders schema.     *)
(* Values: SQL NULL / Python None of a text column is the string "NULL";   *)
(* BOOLEAN columns hold TRUE/FALSE (sqlite stores 1/0, equal in Python).   *)
(*                                                                         *)
(* The position list and the weekly option income (PortfolioService,       *)
(* src/api/routes/portfolio.py) are operators over a holdings value, which *)
(* is held in the variable portfolio together with the last response.      *)
(*                                                                         *)
(* Requests that several worker threads serve at once are taken statement  *)
(* by statement; inflight holds, per worker, the request it is serving.    *)
(***************************************************************************)
EXTENDS Integers, FiniteSets, Sequences, TLC

VARIABLES db, clock,
          holdings_cache, cache_time, primary_account_id,
          now, ticks, provider, lastOk, th,
          portfolio, inflight

\* ordVars is what the cache steps leave alone, cacheVars what the order-store
\* steps leave alone; portfolio (the position calculations) and inflight (the
\* requests of the worker threads that are between two statements) are in both
ordVars == <<db, clock, portfolio, inflight>>
cacheVars == <<holdings_cache, cache_time, primary_account_id, now, ticks, provider, lastOk, th, portfolio,
               inflight>>
vars == <<db, clock, holdings_cache, cache_time, primary_account_id, now, ticks, provider, lastOk, th,
          portfolio, inflight>>

(***************************************************************************)
(* Bounds of the model.                                                    *)
(***************************************************************************)
\* orders ever inserted (AUTOINCREMENT ids 1..MaxOrders)
MaxOrders == 1
\* wall-clock seconds the order store's clock may reach
MaxClock == 1
\* clock advances the cache model may take
MaxTicks == 3
\* versions of the provider's holdings data
MaxVer == 2
\* concurrent request threads sharing one PortfolioService
NumThreads == 2
\* rollover requests that reach the store (two rows each)
MaxRollovers == 1
\* orders in a database written before the isRollover column existed
MaxLegacy == 3
\* orders created in the store whose listings are examined
MaxListed == 2
\* entries of the provider's 'positions' array
MaxStocks == 1
\* entries of the provider's 'option_positions' array
MaxOptions == 2

(***************************************************************************)
(* The orders table.                                                       *)
(***************************************************************************)
Columns ==
    {"id", "timestamp", "ticker", "option_type", "action", "strike", "expiration",
     "premium", "quantity", "status", "executed", "bid", "ask", "last",
     "delta", "gamma", "theta", "vega", "implied_volatility",
     "open_interest", "volume", "is_mock",
     "earnings_max_contracts", "earnings_premium_per_contract",
     "earnings_total_premium", "earnings_return_on_cash", "earnings_return_on_capital",
     "ib_order_id", "ib_status", "filled", "remaining", "avg_fill_price", "isRollover"}

\* text columns declared NOT NULL (strike REAL NOT NULL holds numbers here)
NotNullColumns == {"ticker", "option_type", "action", "expiration"}

\* the INSERT raises IntegrityError when a NOT NULL column is given None
NullViolation(order_data) ==
    \E c \in NotNullColumns \cap DOMAIN order_data : order_data[c] = "NULL"

\* DEFAULT clauses of the columns save_order's INSERT does not name
TableDefaults ==
    [ib_order_id |-> "NULL", ib_status |-> "NULL", filled |-> 0, remaining |-> 0,
     avg_fill_price |-> 0]

\* order_data.get(key, default) of save_order, key by key
SaveDefaults ==
    [ticker |-> "", option_type |-> "", action |-> "SELL", strike |-> 0, expiration |-> "",
     premium |-> 0, quantity |-> 1, bid |-> 0, ask |-> 0, last |-> 0,
     delta |-> 0, gamma |-> 0, theta |-> 0, vega |-> 0, implied_volatility |-> 0,
     open_interest |-> 0, volume |-> 0, is_mock |-> FALSE,
     earnings_max_contracts |-> 0, earnings_premium_per_contract |-> 0,
     earnings_total_premium |-> 0, earnings_return_on_cash |-> 0,
     earnings_return_on_capital |-> 0, isRollover |-> FALSE]

InsertColumns == DOMAIN SaveDefaults

\* dict.get(key, default)
Get(data, key, default) == IF key \in DOMAIN data THEN data[key] ELSE default

Statuses == {"pending", "processing", "completed", "canceled"}

orders == db.rows

\* the row save_order's INSERT writes
NewRow(id, order_data, ts) ==
    [c \in Columns |->
        CASE c = "id" -> id
          [] c = "timestamp" -> ts
          [] c = "status" -> "pending"
          [] c = "executed" -> FALSE
          [] c \in InsertColumns ->
                IF c \in DOMAIN order_data THEN order_data[c] ELSE SaveDefaults[c]
          [] OTHER -> TableDefaults[c]]

\* a statement that writes succeeds only when the storage is up and no other
\* connection holds the write lock ("database is locked" after the timeout)
Writable(d) == d.up /\ ~d.locked

\* a mutant of save_order: the INSERT omits quantity, so the column default 1 is stored
save_order_drops_quantity(d, order_data, ts) ==
    IF ~Writable(d) THEN [db |-> d, ret |-> 0]
    ELSE IF NullViolation(order_data) THEN [db |-> [d EXCEPT !.locked = TRUE], ret |-> 0]
    ELSE LET id == d.seq + 1
         IN [db |-> [d EXCEPT !.rows = (id :> [NewRow(id, order_data, ts) EXCEPT !["quantity"] = 1]) @@ d.rows,
                              !.seq = id],
             ret |-> id]

\* a mutant of save_order: the id column without AUTOINCREMENT, where the new
\* rowid is one more than the largest id currently stored
save_order_reuses_rowid(d, order_data, ts) ==
    IF ~Writable(d) THEN [db |-> d, ret |-> 0]
    ELSE IF NullViolation(order_data) THEN [db |-> [d EXCEPT !.locked = TRUE], ret |-> 0]
    ELSE LET ids == DOMAIN d.rows
             id == IF ids = {} THEN 1 ELSE (CHOOSE m \in ids : \A x \in ids : x <= m) + 1
         IN [db |-> [d EXCEPT !.rows = (id :> NewRow(id, order_data, ts)) @@ d.rows,
                              !.seq = IF id > d.seq THEN id ELSE d.seq],
             ret |-> id]

\* OptionsDatabase.save_order: ret is the new row id, 0 for None. When the INSERT
\* raises IntegrityError the except clause returns without closing the
\* connection (conn.close() is on the success path only, line 244): its open
\* write transaction keeps the database locked until the connection object is
\* garbage-collected.
save_order(d, order_data, ts) ==
    IF ~Writable(d) THEN [db |-> d, ret |-> 0]
    ELSE IF NullViolation(order_data) THEN [db |-> [d EXCEPT !.locked = TRUE], ret |-> 0]
    ELSE LET id == d.seq + 1
         IN [db |-> [d EXCEPT !.rows = (id :> NewRow(id, order_data, ts)) @@ d.rows,
                              !.seq = id],
             ret |-> id]

\* OptionsDatabase.get_order
get_order(d, order_id) ==
    IF d.up /\ order_id \in DOMAIN d.rows
    THEN [found |-> TRUE, row |-> d.rows[order_id]]
    ELSE [found |-> FALSE, row |-> <<>>]

\* execution_details keys update_order_status copies into the row (field_mappings)
field_mappings == {"ib_order_id", "ib_status", "filled", "remaining", "avg_fill_price", "is_mock"}

\* execution_details values: kind "none" is None, "dict" a dict with items d,
\* "other" a truthy value that is no dict
IsTruthyDict(details) == details.kind = "dict" /\ DOMAIN details.d # {}

\* a mutant of update_order_status: every key of execution_details that names a
\* column is copied into the row, not only the keys of field_mappings
update_order_status_copies_all_keys(d, order_id, status, executed, details) ==
    IF ~Writable(d) THEN [db |-> d, ret |-> FALSE]
    ELSE IF ~IsTruthyDict(details) THEN [db |-> d, ret |-> FALSE]
    ELSE IF order_id \notin DOMAIN d.rows THEN [db |-> d, ret |-> FALSE]
    ELSE LET old == d.rows[order_id]
             new == [c \in Columns |->
                        CASE c = "status" -> status
                          [] c = "executed" -> executed
                          [] c \in DOMAIN details.d -> details.d[c]
                          [] OTHER -> old[c]]
         IN [db |-> [d EXCEPT !.rows[order_id] = new], ret |-> TRUE]

\* a mutant of update_order_status: the row count is ignored, True is returned
\* whenever the statement ran
update_order_status_ignores_rowcount(d, order_id, status, executed, details) ==
    IF ~Writable(d) THEN [db |-> d, ret |-> FALSE]
    ELSE IF ~IsTruthyDict(details) THEN [db |-> d, ret |-> FALSE]
    ELSE IF order_id \notin DOMAIN d.rows THEN [db |-> d, ret |-> TRUE]
    ELSE LET old == d.rows[order_id]
             new == [c \in Columns |->
                        CASE c = "status" -> status
                          [] c = "executed" -> executed
                          [] c \in field_mappings \cap DOMAIN details.d -> details.d[c]
                          [] OTHER -> old[c]]
         IN [db |-> [d EXCEPT !.rows[order_id] = new], ret |-> TRUE]

\* a mutant of update_order_status: execution columns whose key is absent are
\* reset to their column defaults (a full overwrite of the execution data)
update_order_status_full_overwrite(d, order_id, status, executed, details) ==
    IF ~Writable(d) THEN [db |-> d, ret |-> FALSE]
    ELSE IF ~IsTruthyDict(details) THEN [db |-> d, ret |-> FALSE]
    ELSE IF order_id \notin DOMAIN d.rows THEN [db |-> d, ret |-> FALSE]
    ELSE LET old == d.rows[order_id]
             new == [c \in Columns |->
                        CASE c = "status" -> status
                          [] c = "executed" -> executed
                          [] c \in field_mappings \cap DOMAIN details.d -> details.d[c]
                          [] c \in DOMAIN TableDefaults -> TableDefaults[c]
                          [] OTHER -> old[c]]
         IN [db |-> [d EXCEPT !.rows[order_id] = new], ret |-> TRUE]

\* OptionsDatabase.update_order_status. order_id is appended to the statement's
\* parameters only inside the execution_details branch (line 316): without a
\* non-empty dict the UPDATE has three placeholders and two parameters, sqlite3
\* raises ProgrammingError and the except clause returns False.
update_order_status(d, order_id, status, executed, details) ==
    IF ~Writable(d) THEN [db |-> d, ret |-> FALSE]
    ELSE IF ~IsTruthyDict(details) THEN [db |-> d, ret |-> FALSE]
    ELSE IF order_id \notin DOMAIN d.rows THEN [db |-> d, ret |-> FALSE]
    ELSE LET old == d.rows[order_id]
             new == [c \in Columns |->
                        CASE c = "status" -> status
                          [] c = "executed" -> executed
                          [] c \in field_mappings \cap DOMAIN details.d -> details.d[c]
                          [] OTHER -> old[c]]
         IN [db |-> [d EXCEPT !.rows[order_id] = new], ret |-> TRUE]

\* the statements of update_order_status that reach the storage, in program
\* order: sqlite3.connect (285), the UPDATE (327), conn.commit() (332) and the
\* read-back SELECT (336)
StatusStatements == {"connect", "update", "commit", "verify"}

\* update_order_status on a writable store whose storage fails at statement
\* `at`; the except clause (342-345) returns False wherever the exception is
\* raised. A failure of the UPDATE or of the commit leaves the connection open
\* with its uncommitted transaction, as in save_order. The read-back runs after
\* conn.commit(): when it raises, the UPDATE is already stored.
update_order_status_failing(d, order_id, status, executed, details, at) ==
    CASE at = "connect" -> [db |-> d, ret |-> FALSE]
      [] at \in {"update", "commit"} -> [db |-> [d EXCEPT !.locked = TRUE], ret |-> FALSE]
      [] at = "verify" ->
            [db |-> update_order_status(d, order_id, status, executed, details).db,
             ret |-> FALSE]

\* a mutant of delete_order: a soft delete that marks the row instead of removing it
delete_order_soft(d, order_id) ==
    IF ~Writable(d) \/ order_id \notin DOMAIN d.rows THEN [db |-> d, ret |-> FALSE]
    ELSE [db |-> [d EXCEPT !.rows[order_id].status = "deleted"], ret |-> TRUE]

\* OptionsDatabase.delete_order
delete_order(d, order_id) ==
    IF ~Writable(d) \/ order_id \notin DOMAIN d.rows THEN [db |-> d, ret |-> FALSE]
    ELSE [db |-> [d EXCEPT !.rows = [i \in DOMAIN d.rows \ {order_id} |-> d.rows[i]]],
          ret |-> TRUE]

\* OptionsDatabase.update_order_quantity
update_order_quantity(d, order_id, quantity, ts) ==
    IF ~d.up \/ order_id \notin DOMAIN d.rows THEN [db |-> d, ret |-> FALSE]
    ELSE IF d.rows[order_id].status # "pending" THEN [db |-> d, ret |-> FALSE]
    ELSE IF d.locked THEN [db |-> d, ret |-> FALSE]
    ELSE [db |-> [d EXCEPT !.rows[order_id].quantity = quantity,
                           !.rows[order_id].timestamp = ts],
          ret |-> TRUE]

\* get_orders' default limit
DEFAULT_LIMIT == 50

\* the WHERE clause get_orders builds; filters holds the keyword arguments that
\* are not None, status_filter as the set of the list's values
order_matches(row, filters) ==
    /\ IF "status_filter" \in DOMAIN filters /\ filters.status_filter # {}
       THEN row.status \in filters.status_filter
       ELSE "status" \in DOMAIN filters => row.status = filters.status
    /\ "executed" \in DOMAIN filters => row.executed = filters.executed
    /\ "ticker" \in DOMAIN filters => row.ticker = filters.ticker
    /\ "isRollover" \in DOMAIN filters => row.isRollover = filters.isRollover

\* a mutant of get_orders: ORDER BY timestamp ASC
get_orders_ascending(d, filters, limit) ==
    IF ~d.up THEN {<<>>}
    ELSE LET ids == {i \in DOMAIN d.rows : order_matches(d.rows[i], filters)}
             n == IF limit < 0 \/ limit > Cardinality(ids) THEN Cardinality(ids) ELSE limit
             picks == {q \in [1..n -> ids] :
                         /\ \A a \in 1..n : \A b \in 1..n : a < b =>
                               /\ q[a] # q[b]
                               /\ d.rows[q[a]].timestamp <= d.rows[q[b]].timestamp
                         /\ \A i \in ids \ {q[a] : a \in 1..n} :
                               \A a \in 1..n : d.rows[q[a]].timestamp <= d.rows[i].timestamp}
         IN {[k \in 1..n |-> d.rows[q[k]]] : q \in picks}

\* OptionsDatabase.get_orders: the lists the query may return. ORDER BY
\* timestamp DESC LIMIT ? fixes the order of rows up to ties in timestamp, so
\* the result is one of the lists of min(limit, matches) distinct matching rows
\* in non-increasing timestamp order that leave out no later row (a negative
\* LIMIT is no limit in sqlite). On an exception the method returns [].
get_orders(d, filters, limit) ==
    IF ~d.up THEN {<<>>}
    ELSE LET ids == {i \in DOMAIN d.rows : order_matches(d.rows[i], filters)}
             n == IF limit < 0 \/ limit > Cardinality(ids) THEN Cardinality(ids) ELSE limit
             picks == {q \in [1..n -> ids] :
                         /\ \A a \in 1..n : \A b \in 1..n : a < b =>
                               /\ q[a] # q[b]
                               /\ d.rows[q[a]].timestamp >= d.rows[q[b]].timestamp
                         /\ \A i \in ids \ {q[a] : a \in 1..n} :
                               \A a \in 1..n : d.rows[q[a]].timestamp >= d.rows[i].timestamp}
         IN {[k \in 1..n |-> d.rows[q[k]]] : q \in picks}

\* OptionsDatabase.get_pending_orders; isRollover is the keyword argument as
\* get_orders receives it: <<>> for None, else [isRollover |-> value]
get_pending_orders(d, executed, limit, isRollover) ==
    IF executed
    THEN get_orders(d, [executed |-> executed] @@ isRollover, limit)
    ELSE get_orders(d, [status_filter |-> {"pending", "processing"}] @@ isRollover, limit)

(***************************************************************************)
(* Request handlers (routes/options.py) and OptionsService.                *)
(***************************************************************************)
required_fields == {"ticker", "option_type", "strike", "expiration"}

\* a mutant of the create route: the required-field loop is missing
route_save_order_unchecked(d, order_data, ts) ==
    IF DOMAIN order_data = {} THEN [db |-> d, code |-> 400, id |-> 0]
    ELSE LET r == save_order(d, order_data, ts)
         IN IF r.ret # 0 THEN [db |-> r.db, code |-> 201, id |-> r.ret]
            ELSE [db |-> r.db, code |-> 500, id |-> 0]

\* POST /order
route_save_order(d, order_data, ts) ==
    IF DOMAIN order_data = {} THEN [db |-> d, code |-> 400, id |-> 0]
    ELSE IF ~(required_fields \subseteq DOMAIN order_data) THEN [db |-> d, code |-> 400, id |-> 0]
    ELSE LET r == save_order(d, order_data, ts)
         IN IF r.ret # 0 THEN [db |-> r.db, code |-> 201, id |-> r.ret]
            ELSE [db |-> r.db, code |-> 500, id |-> 0]

\* DELETE /order/<id>
route_delete_order(d, order_id) ==
    IF ~get_order(d, order_id).found THEN [db |-> d, code |-> 404]
    ELSE LET r == delete_order(d, order_id)
         IN [db |-> r.db, code |-> IF r.ret THEN 200 ELSE 500]

\* OptionsService.execute_order: trading is not implemented
execute_order(d, order_id) == [db |-> d, code |-> 501]

\* outcomes of the cancel request at the external venue (cancel_order's docstring);
\* the method makes no external call and reads none of them
ExternalOutcomes == {"success", "failure", "timeout", "unreachable"}

cancel_details == [kind |-> "dict", d |-> [note |-> "Order canceled (trading not implemented)"]]

\* a mutant of cancel_order: the row is marked only when the venue confirms
cancel_order_needs_venue(d, order_id, ext) ==
    IF ~get_order(d, order_id).found THEN [db |-> d, code |-> 404]
    ELSE IF ext # "success" THEN [db |-> d, code |-> 500]
    ELSE [db |-> update_order_status(d, order_id, "canceled", TRUE, cancel_details).db,
          code |-> 200]

\* a mutant of cancel_order: an order that is already canceled is refused
cancel_order_once(d, order_id, ext) ==
    IF ~get_order(d, order_id).found THEN [db |-> d, code |-> 404]
    ELSE IF d.rows[order_id].status = "canceled" THEN [db |-> d, code |-> 400]
    ELSE [db |-> update_order_status(d, order_id, "canceled", TRUE, cancel_details).db,
          code |-> 200]

\* a mutant of cancel_order: the row is marked canceled with executed False
cancel_order_not_executed(d, order_id, ext) ==
    IF ~get_order(d, order_id).found THEN [db |-> d, code |-> 404]
    ELSE [db |-> update_order_status(d, order_id, "canceled", FALSE, cancel_details).db,
          code |-> 200]

\* OptionsService.cancel_order (POST /cancel/<id> returns its result unchanged)
cancel_order(d, order_id, ext) ==
    IF ~get_order(d, order_id).found THEN [db |-> d, code |-> 404]
    ELSE [db |-> update_order_status(d, order_id, "canceled", TRUE, cancel_details).db,
          code |-> 200]

\* a mutant of the quantity route: the quantity <= 0 check is missing
route_update_order_quantity_any(d, order_id, quantity, ts) ==
    LET o == get_order(d, order_id)
    IN IF ~o.found THEN [db |-> d, code |-> 404]
       ELSE IF o.row.status # "pending" THEN [db |-> d, code |-> 400]
       ELSE LET r == update_order_quantity(d, order_id, quantity, ts)
            IN [db |-> r.db, code |-> IF r.ret THEN 200 ELSE 500]

\* PUT /order/<id>/quantity
route_update_order_quantity(d, order_id, quantity, ts) ==
    IF quantity <= 0 THEN [db |-> d, code |-> 400]
    ELSE LET o == get_order(d, order_id)
         IN IF ~o.found THEN [db |-> d, code |-> 404]
            ELSE IF o.row.status # "pending" THEN [db |-> d, code |-> 400]
            ELSE LET r == update_order_quantity(d, order_id, quantity, ts)
                 IN [db |-> r.db, code |-> IF r.ret THEN 200 ELSE 500]

(***************************************************************************)
(* Inputs.                                                                 *)
(***************************************************************************)
OrderInputs ==
    { [ticker |-> "NVDA", option_type |-> "PUT", strike |-> 850, expiration |-> "20240510",
       action |-> "SELL", quantity |-> 2, premium |-> 5, is_mock |-> TRUE],
      [ticker |-> "AAPL", option_type |-> "CALL", strike |-> 200, expiration |-> "20240517",
       status |-> "completed", executed |-> TRUE, order_type |-> "LIMIT"],
      [ticker |-> "AAPL", option_type |-> "CALL", strike |-> 200] }

DetailInputs ==
    { [kind |-> "none", d |-> <<>>],
      [kind |-> "dict", d |-> <<>>],
      [kind |-> "dict", d |-> [note |-> "n"]],
      [kind |-> "dict", d |-> [filled |-> 1, ib_status |-> "Filled"]] }

QtyInputs == {-1, 0, 3}

\* ids the callers ask about: every id ever assigned and one never assigned
OrderIds == 1..(MaxOrders + 1)

\* keyword arguments of get_orders calls
ListFilters ==
    { <<>>,
      [status |-> "pending"],
      [executed |-> TRUE],
      [ticker |-> "AAPL"],
      [isRollover |-> TRUE],
      [status_filter |-> {"pending", "processing"}],
      [status_filter |-> {}, status |-> "canceled", isRollover |-> FALSE] }

(***************************************************************************)
(* Holdings cache (PortfolioService._get_holdings_cache).                  *)
(*                                                                         *)
(* A holdings value is [kind, ver, at]: kind "dict" is a non-empty         *)
(* holdings dict, "empty" the dict {}, "none" None, "raise" an exception   *)
(* leaving the method; ver is the provider's data version it carries; at   *)
(* is the current_time of the call that fetched it (history, not code).    *)
(* cache_time 0 stands for None (0.0 and None are both falsy at line 78).  *)
(***************************************************************************)
Threads == 1..NumThreads

CACHE_DURATION == 60

\* seconds the clock may advance in one step
TickSteps == {1, 59}

\* what connection.get_user_holdings can hand back or do
FetchOutcomes == {"dict", "empty", "none", "raise"}

NoHoldings == [kind |-> "none", ver |-> 0, at |-> 0]
Raised == [kind |-> "raise", ver |-> 0, at |-> 0]

\* Python truthiness of a holdings value
Truthy(h) == h.kind = "dict"

\* a mutant of the cache check: a snapshot exactly CACHE_DURATION old still counts as fresh
cache_is_fresh_inclusive(hc, ct, current_time) ==
    Truthy(hc) /\ ct # 0 /\ (current_time - ct) <= CACHE_DURATION

\* the condition of lines 78-79
cache_is_fresh(hc, ct, current_time) ==
    Truthy(hc) /\ ct # 0 /\ (current_time - ct) < CACHE_DURATION

\* a mutant of the failure return: the stale snapshot is served
failed_fetch_return_stale(hc) == hc

\* lines 97-99: a falsy response is logged and None returned, whatever is cached
failed_fetch_return(hc) == NoHoldings

\* a mutant of the response test: whatever came back is stored
response_ok_any(h) == TRUE

\* line 93: if holdings
response_ok(h) == Truthy(h)

IdleThread ==
    [pc |-> "idle", current_time |-> 0, holdings |-> NoHoldings, res |-> NoHoldings,
     hit |-> FALSE, seen |-> 0, ncalls |-> 0, outcome |-> "unsent", asked |-> FALSE,
     preCache |-> NoHoldings, preTime |-> 0, preOk |-> NoHoldings]

CacheInit ==
    /\ holdings_cache = NoHoldings
    /\ cache_time = 0
    /\ primary_account_id = "NULL"
    /\ now = 1
    /\ ticks = 0
    /\ provider = 1
    /\ lastOk = NoHoldings
    /\ th = [t \in Threads |-> IdleThread]

\* line 76: current_time = time.time()
Call(t) ==
    /\ th[t].pc = "idle"
    /\ th' = [th EXCEPT ![t] = [IdleThread EXCEPT !.pc = "check", !.current_time = now,
                                 !.preCache = holdings_cache, !.preTime = cache_time,
                                 !.preOk = lastOk]]
    /\ UNCHANGED <<holdings_cache, cache_time, primary_account_id, now, ticks, provider, lastOk, ordVars>>

\* lines 78-79: the cache check
Check(t) ==
    /\ th[t].pc = "check"
    /\ th' = [th EXCEPT ![t].pc = IF cache_is_fresh(holdings_cache, cache_time, th[t].current_time)
                                  THEN "hit" ELSE "account",
                        ![t].seen = cache_time]
    /\ UNCHANGED <<holdings_cache, cache_time, primary_account_id, now, ticks, provider, lastOk, ordVars>>

\* line 81: return self.holdings_cache
ReturnCached(t) ==
    /\ th[t].pc = "hit"
    /\ th' = [th EXCEPT ![t].pc = "done", ![t].res = holdings_cache, ![t].hit = TRUE]
    /\ UNCHANGED <<holdings_cache, cache_time, primary_account_id, now, ticks, provider, lastOk, ordVars>>

\* what the provider's account list gives as accounts[0]['id'] at the time of a
\* call: "NULL" stands for no answer (connection failure, exception, empty list)
AccountAnswers == {"NULL", "acct1", "acct2"}

\* a mutant of the test at line 50: the cached id is never used
account_is_cached_never(account_id) == FALSE

\* line 50: if self.primary_account_id
account_is_cached(account_id) == account_id # "NULL"

\* lines 84 and 50-51: _get_primary_account_id returns the cached id, or goes on
\* to ask the provider
AccountCheck(t) ==
    /\ th[t].pc = "account"
    /\ th' = [th EXCEPT ![t].pc = IF account_is_cached(primary_account_id) THEN "fetch" ELSE "listing",
                        ![t].asked = ~account_is_cached(primary_account_id)]
    /\ UNCHANGED <<holdings_cache, cache_time, primary_account_id, now, ticks, provider, lastOk, ordVars>>

\* lines 53-69 and 85-86: the account list comes back; its first id is stored and
\* returned, without an answer the method returns None and so does the caller
AccountList(t, answer) ==
    /\ th[t].pc = "listing"
    /\ IF answer # "NULL"
       THEN /\ primary_account_id' = answer
            /\ th' = [th EXCEPT ![t].pc = "fetch"]
       ELSE /\ th' = [th EXCEPT ![t].pc = "done", ![t].res = NoHoldings]
            /\ UNCHANGED primary_account_id
    /\ UNCHANGED <<holdings_cache, cache_time, now, ticks, provider, lastOk, ordVars>>

\* line 91: the call to connection.get_user_holdings leaves
FetchSend(t) ==
    /\ th[t].pc = "fetch"
    /\ th' = [th EXCEPT ![t].pc = "inflight", ![t].ncalls = @ + 1]
    /\ UNCHANGED <<holdings_cache, cache_time, primary_account_id, now, ticks, provider, lastOk, ordVars>>

\* lines 91-93 and 97-99: the call comes back; a falsy response ends the method
FetchRecv(t, outcome) ==
    /\ th[t].pc = "inflight"
    /\ LET h == [kind |-> outcome, ver |-> IF outcome = "dict" THEN provider ELSE 0,
                 at |-> IF outcome = "dict" THEN th[t].current_time ELSE 0]
       IN IF outcome = "raise"
          THEN /\ th' = [th EXCEPT ![t].pc = "done", ![t].res = Raised, ![t].outcome = outcome]
               /\ UNCHANGED lastOk
          ELSE IF response_ok(h)
          THEN /\ th' = [th EXCEPT ![t].pc = "store", ![t].holdings = h, ![t].outcome = outcome]
               /\ lastOk' = IF outcome = "dict" THEN h ELSE lastOk
          ELSE /\ th' = [th EXCEPT ![t].pc = "done", ![t].holdings = h, ![t].outcome = outcome,
                                   ![t].res = failed_fetch_return(holdings_cache)]
               /\ UNCHANGED lastOk
    /\ UNCHANGED <<holdings_cache, cache_time, primary_account_id, now, ticks, provider, ordVars>>

\* line 94: self.holdings_cache = holdings
StoreCache(t) ==
    /\ th[t].pc = "store"
    /\ holdings_cache' = th[t].holdings
    /\ th' = [th EXCEPT ![t].pc = "stamp"]
    /\ UNCHANGED <<cache_time, primary_account_id, now, ticks, provider, lastOk, ordVars>>

\* lines 95-96: self.cache_time = current_time; return holdings
StoreTime(t) ==
    /\ th[t].pc = "stamp"
    /\ cache_time' = th[t].current_time
    /\ th' = [th EXCEPT ![t].pc = "done", ![t].res = th[t].holdings]
    /\ UNCHANGED <<holdings_cache, primary_account_id, now, ticks, provider, lastOk, ordVars>>

\* the request that made the call ends
Return(t) ==
    /\ th[t].pc = "done"
    /\ th' = [th EXCEPT ![t] = IdleThread]
    /\ UNCHANGED <<holdings_cache, cache_time, primary_account_id, now, ticks, provider, lastOk, ordVars>>

\* time.time() advances
Tick(d) ==
    /\ ticks < MaxTicks
    /\ now' = now + d
    /\ ticks' = ticks + 1
    /\ UNCHANGED <<holdings_cache, cache_time, primary_account_id, provider, lastOk, th, ordVars>>

\* the account's holdings change at the brokerage
ProviderChange ==
    /\ provider < MaxVer
    /\ provider' = provider + 1
    /\ UNCHANGED <<holdings_cache, cache_time, primary_account_id, now, ticks, lastOk, th, ordVars>>

\* one request at a time uses the service (a gunicorn sync worker process)
SerialCall(t) ==
    /\ \A u \in Threads : th[u].pc = "idle"
    /\ Call(t)

CacheSteps ==
    \/ \E t \in Threads : Check(t)
    \/ \E t \in Threads : ReturnCached(t)
    \/ \E t \in Threads : AccountCheck(t)
    \/ \E t \in Threads, a \in AccountAnswers : AccountList(t, a)
    \/ \E t \in Threads : FetchSend(t)
    \/ \E t \in Threads, o \in FetchOutcomes : FetchRecv(t, o)
    \/ \E t \in Threads : StoreCache(t)
    \/ \E t \in Threads : StoreTime(t)
    \/ \E t \in Threads : Return(t)
    \/ \E d \in TickSteps : Tick(d)
    \/ ProviderChange

SerialNext ==
    \/ \E t \in Threads : SerialCall(t)
    \/ CacheSteps

\* requests run in threads of one process (waitress, the Flask development server)
ThreadedNext ==
    \/ \E t \in Threads : Call(t)
    \/ CacheSteps

(***************************************************************************)
(* Order-store actions: one per request handler, plus update_order_status  *)
(* called directly on the database object.                                 *)
(***************************************************************************)
\* a worker thread that serves no order request
IdleWorker == [op |-> "none", pc |-> "idle", order_id |-> 0, quantity |-> 0, code |-> 0]

OrdInit ==
    /\ db = [rows |-> <<>>, seq |-> 0, up |-> TRUE, locked |-> FALSE, column_names |-> Columns]
    /\ clock = 0
    /\ inflight = [t \in Threads |-> IdleWorker]

Submit(order_data) ==
    /\ db.seq < MaxOrders
    /\ db' = route_save_order(db, order_data, clock).db
    /\ UNCHANGED <<clock, cacheVars>>

Delete(order_id) ==
    /\ db' = route_delete_order(db, order_id).db
    /\ UNCHANGED <<clock, cacheVars>>

Execute(order_id) ==
    /\ db' = execute_order(db, order_id).db
    /\ UNCHANGED <<clock, cacheVars>>

Cancel(order_id, ext) ==
    /\ db' = cancel_order(db, order_id, ext).db
    /\ UNCHANGED <<clock, cacheVars>>

UpdateQuantity(order_id, quantity) ==
    /\ db' = route_update_order_quantity(db, order_id, quantity, clock).db
    /\ UNCHANGED <<clock, cacheVars>>

UpdateStatus(order_id, status, executed, details) ==
    /\ db' = update_order_status(db, order_id, status, executed, details).db
    /\ UNCHANGED <<clock, cacheVars>>

ClockTick ==
    /\ clock < MaxClock
    /\ clock' = clock + 1
    /\ UNCHANGED <<db, cacheVars>>

\* no portfolio request has been served
NoCall == [op |-> "none"]

\* no holdings have been handed to the position calculations
PortfolioIdle == portfolio = [holdings |-> [t |-> "null"], result |-> NoCall]

Init == OrdInit /\ CacheInit /\ PortfolioIdle

Next ==
    \/ \E o \in OrderInputs : Submit(o)
    \/ \E i \in OrderIds : Delete(i)
    \/ \E i \in OrderIds : Execute(i)
    \/ \E i \in OrderIds, e \in ExternalOutcomes : Cancel(i, e)
    \/ \E i \in OrderIds, q \in QtyInputs : UpdateQuantity(i, q)
    \/ \E i \in OrderIds, s \in Statuses, x \in BOOLEAN, e \in DetailInputs :
          UpdateStatus(i, s, x, e)
    \/ ClockTick

Spec == Init /\ [][Next]_vars

SerialSpec == Init /\ [][SerialNext]_vars

ThreadedSpec == Init /\ [][ThreadedNext]_vars

(***************************************************************************)
(* Positions and weekly option income (PortfolioService._get_positions,    *)
(* get_positions, get_weekly_option_income; routes/portfolio.py).          *)
(*                                                                         *)
(* A value of the provider's JSON is [t, ...]: JNull is null / None,       *)
(* JNum(n) a number, JStr(s) a string, JDict(d) an object with items d.    *)
(* A date string "YYYY-MM-DD" is the tuple of its parts between dashes,    *)
(* <<YYYY, MM, DD>>; a string without dashes is a tuple of one part, so    *)
(* "YYYYMMDD" is <<YYYYMMDD>> and "" is <<>>. Other strings are TLA+       *)
(* strings. A day is counted from Monday 2024-05-27 (day 0).               *)
(***************************************************************************)
JNull == [t |-> "null"]
JNum(n) == [t |-> "num", n |-> n]
JStr(s) == [t |-> "str", s |-> s]
JDict(d) == [t |-> "dict", d |-> d]

\* Python truthiness of a JSON value
JTruthy(x) ==
    CASE x.t = "null" -> FALSE
      [] x.t = "num" -> x.n # 0
      [] x.t = "str" -> x.s # ""
      [] x.t = "dict" -> DOMAIN x.d # {}

\* 'Stock' in type_desc, for the descriptions of the inputs
ContainsStock(desc) == desc \in {"Common Stock", "Preferred Stock"}

\* str.replace('-', '') on a date string
remove_dashes(parts) ==
    IF Len(parts) = 3 THEN <<parts[1] * 10000 + parts[2] * 100 + parts[3]>> ELSE parts

\* str.upper() on the option types of the inputs
upper(str) ==
    CASE str \in {"put", "Put", "PUT"} -> "PUT"
      [] str \in {"call", "Call", "CALL"} -> "CALL"
      [] OTHER -> str

\* a mutant of the test at line 170: an option entry without an underlying
\* symbol is kept
underlying_missing_never(underlying_symbol) == FALSE

\* line 170: if underlying_symbol == 'N/A'
underlying_missing(underlying_symbol) == underlying_symbol = JStr("N/A")

\* lines 128-151, the body of the stock loop: the list of positions it appends,
\* <<>> when the entry is skipped (continue) or an exception is caught.
\* dict.get on None or a string raises AttributeError, None * number and
\* 'Stock' in None raise TypeError.
stock_position(pos) ==
    IF pos.t # "dict" THEN <<>>
    ELSE LET sym == Get(pos.d, "symbol", JDict(<<>>))
         IN IF sym.t # "dict" THEN <<>>
            ELSE LET symbol_data == Get(sym.d, "symbol", JDict(<<>>))
                 IN IF ~JTruthy(symbol_data) \/ symbol_data.t # "dict" THEN <<>>
                    ELSE LET type == Get(symbol_data.d, "type", JDict(<<>>))
                             type_desc == IF type.t = "dict"
                                          THEN Get(type.d, "description", JStr("Unknown"))
                                          ELSE JNull
                             units == Get(pos.d, "units", JNum(0))
                             price == Get(pos.d, "price", JNum(0))
                         IN IF type.t # "dict" \/ type_desc.t # "str" THEN <<>>
                            ELSE IF units.t # "num" \/ price.t # "num" THEN <<>>
                            ELSE << [symbol |-> Get(symbol_data.d, "symbol", JStr("N/A")),
                                     position |-> units,
                                     market_price |-> price,
                                     market_value |-> units.n * price.n,
                                     avg_cost |-> Get(pos.d, "average_purchase_price", JNum(0)),
                                     unrealized_pnl |-> Get(pos.d, "open_pnl", JNum(0)),
                                     security_type |-> IF ContainsStock(type_desc.s)
                                                       THEN "STK" ELSE "UNKNOWN"] >>

\* lines 158-188, the body of the option loop
option_position(pos) ==
    IF pos.t # "dict" THEN <<>>
    ELSE LET sym == Get(pos.d, "symbol", JDict(<<>>))
         IN IF sym.t # "dict" THEN <<>>
            ELSE LET option_symbol_data == Get(sym.d, "option_symbol", JDict(<<>>))
                 IN IF ~JTruthy(option_symbol_data) \/ option_symbol_data.t # "dict" THEN <<>>
                    ELSE LET underlying_symbol_obj ==
                                 Get(option_symbol_data.d, "underlying_symbol", JDict(<<>>))
                             underlying_symbol ==
                                 IF underlying_symbol_obj.t = "dict"
                                 THEN Get(underlying_symbol_obj.d, "symbol", JStr("N/A"))
                                 ELSE JNull
                             units == Get(pos.d, "units", JNum(0))
                             price == Get(pos.d, "price", JNum(0))
                             expiration_date == Get(option_symbol_data.d, "expiration_date", JStr(<<>>))
                             option_type == Get(option_symbol_data.d, "option_type", JStr("N/A"))
                         IN IF underlying_symbol_obj.t # "dict" THEN <<>>
                            ELSE IF underlying_missing(underlying_symbol) THEN <<>>
                            ELSE IF units.t # "num" \/ price.t # "num" THEN <<>>
                            ELSE IF expiration_date.t # "str" \/ option_type.t # "str" THEN <<>>
                            ELSE << [symbol |-> underlying_symbol,
                                     position |-> units,
                                     market_price |-> price,
                                     market_value |-> units.n * price.n,
                                     avg_cost |-> Get(pos.d, "average_purchase_price", JNum(0)),
                                     unrealized_pnl |-> Get(pos.d, "open_pnl", JNum(0)),
                                     security_type |-> "OPT",
                                     expiration |-> remove_dashes(expiration_date.s),
                                     strike |-> Get(option_symbol_data.d, "strike_price", JNum(0)),
                                     option_type |-> upper(option_type.s)] >>

RECURSIVE stock_loop(_)
\* lines 127-151: for pos in stock_positions
stock_loop(list) ==
    IF list = <<>> THEN <<>> ELSE stock_position(Head(list)) \o stock_loop(Tail(list))

RECURSIVE option_loop(_)
\* lines 157-188: for pos in option_positions
option_loop(list) ==
    IF list = <<>> THEN <<>> ELSE option_position(Head(list)) \o option_loop(Tail(list))

\* PortfolioService._get_positions on the value _get_holdings_cache returned, a
\* non-empty dict or None; the arrays are lists of entries
_get_positions(holdings) ==
    IF ~JTruthy(holdings) THEN <<>>
    ELSE stock_loop(Get(holdings.d, "positions", <<>>))
         \o option_loop(Get(holdings.d, "option_positions", <<>>))

\* PortfolioService.get_positions; security_type "NULL" is None
get_positions(holdings, security_type) ==
    LET all_positions == _get_positions(holdings)
    IN IF security_type = "NULL" THEN all_positions
       ELSE SelectSeq(all_positions, LAMBDA pos : pos.security_type = security_type)

\* a day of the calendar as strftime('%Y%m%d') prints it
ymd(day) == IF day <= 4 THEN 20240527 + day ELSE 20240601 + (day - 5)

\* datetime.weekday(): Monday is 0
weekday(day) == day % 7

\* a mutant of line 265: no modulo, so that a weekend goes back to the Friday
\* before it
days_until_friday_signed(today_weekday) == 4 - today_weekday

\* line 265
days_until_friday(today_weekday) == (4 - today_weekday) % 7

\* a mutant of get_closest_friday: the weekend branch counts from the Saturday
days_to_add_from_saturday(today_weekday) ==
    IF today_weekday < 4 THEN 4 - today_weekday
    ELSE IF today_weekday = 4 THEN 0
    ELSE 4 + (6 - today_weekday)

\* core/utils.py get_closest_friday, lines 139-144: days_to_add by cases
days_to_add(today_weekday) ==
    IF today_weekday < 4 THEN 4 - today_weekday
    ELSE IF today_weekday = 4 THEN 0
    ELSE 4 + (7 - today_weekday)

\* core/utils.py get_closest_friday, on the day today
get_closest_friday(today) == today + days_to_add(weekday(today))

\* the except clause of get_weekly_option_income (line 313)
WeeklyFallback == [positions |-> <<>>, total_income |-> 0, positions_count |-> 0]

\* lines 273-276: the positions the loop does not skip
is_weekly(pos, this_friday_str) ==
    /\ ~(pos.position.n >= 0)
    /\ pos.expiration # <<>> /\ pos.expiration[1] <= this_friday_str[1]

\* lines 277-298: the entry appended for a selected position
weekly_position(pos) ==
    LET contracts == IF pos.position.n < 0 THEN -pos.position.n ELSE pos.position.n
        income == pos.avg_cost.n * contracts
    IN [symbol |-> pos.symbol, option_type |-> pos.option_type, strike |-> pos.strike,
        expiration |-> pos.expiration, position |-> pos.position,
        premium_per_contract |-> pos.avg_cost, avg_cost |-> pos.avg_cost,
        income |-> income, commission |-> 0,
        notional_value |-> IF pos.option_type = "PUT"
                           THEN JNum(pos.strike.n * 100 * contracts) ELSE JNull]

\* None * number raises TypeError at line 279 (avg_cost) or 285 (strike of a PUT)
weekly_raises(pos) ==
    pos.avg_cost.t # "num" \/ (pos.option_type = "PUT" /\ pos.strike.t # "num")

RECURSIVE sum_income(_)
\* total_income += income
sum_income(list) == IF list = <<>> THEN 0 ELSE Head(list).income + sum_income(Tail(list))

RECURSIVE sum_put_notional(_)
\* line 306
sum_put_notional(list) ==
    IF list = <<>> THEN 0
    ELSE (IF Head(list).option_type = "PUT" THEN Head(list).notional_value.n ELSE 0)
         + sum_put_notional(Tail(list))

\* PortfolioService.get_weekly_option_income, today being datetime.now()'s day
get_weekly_option_income(holdings, today) ==
    LET positions == get_positions(holdings, "OPT")
        this_friday == today + days_until_friday(weekday(today))
        this_friday_str == <<ymd(this_friday)>>
        selected == SelectSeq(positions, LAMBDA pos : is_weekly(pos, this_friday_str))
    IN IF \E k \in DOMAIN selected : weekly_raises(selected[k]) THEN WeeklyFallback
       ELSE LET weekly_positions == [k \in DOMAIN selected |-> weekly_position(selected[k])]
            IN [positions |-> weekly_positions,
                total_income |-> sum_income(weekly_positions),
                total_commission |-> 0,
                positions_count |-> Len(weekly_positions),
                this_friday |-> this_friday,
                total_put_notional |-> sum_put_notional(weekly_positions)]

\* GET /api/portfolio/positions
route_get_positions(holdings, security_type) ==
    [code |-> 200, body |-> get_positions(holdings, security_type)]

\* GET /api/portfolio/weekly-income
route_get_weekly_income(holdings, today) ==
    LET results == get_weekly_option_income(holdings, today)
    IN IF "error" \in DOMAIN results
       THEN [code |-> 500, body |-> [error |-> results.error, positions |-> <<>>,
                                     total_income |-> 0, positions_count |-> 0]]
       ELSE [code |-> 200, body |-> results]

\* entries of the 'positions' array: a stock, one without the symbol object, one
\* whose symbol is null, one whose units are null
StockEntries ==
    { JDict([symbol |-> JDict([symbol |-> JDict([symbol |-> JStr("AAPL"),
                                                  type |-> JDict([description |-> JStr("Common Stock")])])]),
             units |-> JNum(100), price |-> JNum(2), average_purchase_price |-> JNum(1),
             open_pnl |-> JNum(100)]),
      JDict([units |-> JNum(5), price |-> JNum(2)]),
      JDict([symbol |-> JNull, units |-> JNum(5), price |-> JNum(2)]),
      JDict([symbol |-> JDict([symbol |-> JDict([symbol |-> JStr("BND"),
                                                  type |-> JDict([description |-> JStr("ETF")])])]),
             units |-> JNull, price |-> JNum(2)]) }

\* an entry of the 'option_positions' array with the whole nested path
OptionEntry(ticker, option_type, strike_price, expiration_date, units, average_purchase_price) ==
    JDict([symbol |-> JDict([option_symbol |->
                 JDict([underlying_symbol |-> JDict([symbol |-> JStr(ticker)]),
                        option_type |-> JStr(option_type),
                        strike_price |-> strike_price,
                        expiration_date |-> expiration_date])]),
           units |-> JNum(units), price |-> JNum(3),
           average_purchase_price |-> average_purchase_price])

\* entries of the 'option_positions' array: short puts and a short call expiring
\* on the two Fridays of the calendar, a long put, an entry without option_symbol,
\* one without underlying_symbol, one whose underlying_symbol is null, one whose
\* expiration_date is null, a short put whose average_purchase_price is null
OptionEntries ==
    { OptionEntry("NVDA", "put", JNum(100), JStr(<<2024, 5, 31>>), -2, JNum(150)),
      OptionEntry("AAPL", "CALL", JNum(200), JStr(<<2024, 6, 7>>), -1, JNum(80)),
      OptionEntry("NVDA", "PUT", JNum(90), JStr(<<2024, 5, 31>>), 1, JNum(120)),
      JDict([symbol |-> JDict([description |-> JStr("?")]), units |-> JNum(-1), price |-> JNum(3)]),
      JDict([symbol |-> JDict([option_symbol |-> JDict([option_type |-> JStr("PUT"),
                                                         strike_price |-> JNum(100),
                                                         expiration_date |-> JStr(<<2024, 5, 31>>)])]),
             units |-> JNum(-1), price |-> JNum(3)]),
      JDict([symbol |-> JDict([option_symbol |-> JDict([underlying_symbol |-> JNull,
                                                         option_type |-> JStr("PUT")])]),
             units |-> JNum(-1), price |-> JNum(3)]),
      OptionEntry("MSFT", "put", JNum(300), JNull, -1, JNum(50)),
      OptionEntry("TSLA", "put", JNum(150), JStr(<<2024, 5, 31>>), -3, JNull) }

\* what _get_holdings_cache hands to _get_positions: None, or the provider's
\* holdings dict
HoldingsInputs ==
    {JNull} \cup
    { JDict([account |-> JStr("acct1"), positions |-> sp, option_positions |-> op]) :
        sp \in UNION {[1..n -> StockEntries] : n \in 0..MaxStocks},
        op \in UNION {[1..n -> OptionEntries] : n \in 0..MaxOptions} }

\* the days datetime.now() may fall on: Monday 2024-05-27 to Sunday 2024-06-02
Days == 0..6

PortfolioInit ==
    /\ OrdInit
    /\ CacheInit
    /\ \E h \in HoldingsInputs : portfolio = [holdings |-> h, result |-> NoCall]

\* GET /api/portfolio/positions, with ?type=
GetPositions(security_type) ==
    /\ portfolio' = [portfolio EXCEPT !.result =
                        [op |-> "positions", type |-> security_type,
                         response |-> route_get_positions(portfolio.holdings, security_type)]]
    /\ UNCHANGED <<db, clock, holdings_cache, cache_time, primary_account_id, now, ticks,
                   provider, lastOk, th, inflight>>

\* GET /api/portfolio/weekly-income on the day today
GetWeeklyIncome(today) ==
    /\ portfolio' = [portfolio EXCEPT !.result =
                        [op |-> "weekly", today |-> today,
                         response |-> route_get_weekly_income(portfolio.holdings, today)]]
    /\ UNCHANGED <<db, clock, holdings_cache, cache_time, primary_account_id, now, ticks,
                   provider, lastOk, th, inflight>>

\* a call of core.utils.get_closest_friday on the day today
GetClosestFriday(today) ==
    /\ portfolio' = [portfolio EXCEPT !.result =
                        [op |-> "closest_friday", today |-> today,
                         response |-> get_closest_friday(today)]]
    /\ UNCHANGED <<db, clock, holdings_cache, cache_time, primary_account_id, now, ticks,
                   provider, lastOk, th, inflight>>

PortfolioNext ==
    \/ \E ty \in {"NULL", "STK", "OPT"} : GetPositions(ty)
    \/ \E d \in Days : GetWeeklyIncome(d)
    \/ \E d \in Days : GetClosestFriday(d)

PortfolioSpec == PortfolioInit /\ [][PortfolioNext]_vars

(***************************************************************************)
(* POST /rollover (routes/options.py rollover_option).                     *)
(***************************************************************************)
rollover_required_fields ==
    {"ticker", "current_option_type", "current_strike", "current_expiration",
     "new_strike", "new_expiration", "quantity"}

\* the buy-to-close order dict (lines 258-270)
buy_order(rollover_data) ==
    [ticker |-> rollover_data.ticker,
     option_type |-> rollover_data.current_option_type,
     strike |-> rollover_data.current_strike,
     expiration |-> rollover_data.current_expiration,
     action |-> "BUY",
     quantity |-> rollover_data.quantity,
     order_type |-> Get(rollover_data, "current_order_type", "MARKET"),
     limit_price |-> Get(rollover_data, "current_limit_price", "NULL"),
     bid |-> Get(rollover_data, "current_bid", 0),
     ask |-> Get(rollover_data, "current_ask", 0),
     isRollover |-> TRUE]

\* the sell-to-open order dict (lines 273-285)
sell_order(rollover_data) ==
    [ticker |-> rollover_data.ticker,
     option_type |-> rollover_data.current_option_type,
     strike |-> rollover_data.new_strike,
     expiration |-> rollover_data.new_expiration,
     action |-> "SELL",
     quantity |-> rollover_data.quantity,
     order_type |-> Get(rollover_data, "new_order_type", "LIMIT"),
     limit_price |-> Get(rollover_data, "new_limit_price", 0) * 100,
     bid |-> Get(rollover_data, "new_bid", 0),
     ask |-> Get(rollover_data, "new_ask", 0),
     isRollover |-> TRUE]

RolloverFailed == [error |-> "Failed to create one or more rollover orders"]

\* a mutant of rollover_option: a leg stored alone is deleted again
rollover_option_rollback(d, rollover_data, ts1, ts2, up1, up2) ==
    IF DOMAIN rollover_data = {} \/ ~(rollover_required_fields \subseteq DOMAIN rollover_data)
    THEN [db |-> d, code |-> 400, body |-> [error |-> "Missing required field"],
          buy_order_id |-> 0, sell_order_id |-> 0]
    ELSE LET r1 == save_order([d EXCEPT !.up = d.up /\ up1], buy_order(rollover_data), ts1)
             r2 == save_order([r1.db EXCEPT !.up = d.up /\ up2], sell_order(rollover_data), ts2)
         IN IF r1.ret # 0 /\ r2.ret # 0
            THEN [db |-> [r2.db EXCEPT !.up = d.up], code |-> 201,
                  body |-> [success |-> TRUE, buy_order_id |-> r1.ret, sell_order_id |-> r2.ret],
                  buy_order_id |-> r1.ret, sell_order_id |-> r2.ret]
            ELSE [db |-> [d EXCEPT !.seq = r2.db.seq], code |-> 500, body |-> RolloverFailed,
                  buy_order_id |-> r1.ret, sell_order_id |-> r2.ret]

\* rollover_option. ts1, ts2 are the times the two save_order calls read; up1, up2
\* say whether the storage accepts the first and the second INSERT. The result
\* carries the HTTP status, the JSON body, and the two save_order return values
\* (0 for None), which are locals of the handler.
rollover_option(d, rollover_data, ts1, ts2, up1, up2) ==
    IF DOMAIN rollover_data = {} \/ ~(rollover_required_fields \subseteq DOMAIN rollover_data)
    THEN [db |-> d, code |-> 400, body |-> [error |-> "Missing required field"],
          buy_order_id |-> 0, sell_order_id |-> 0]
    ELSE LET r1 == save_order([d EXCEPT !.up = d.up /\ up1], buy_order(rollover_data), ts1)
             r2 == save_order([r1.db EXCEPT !.up = d.up /\ up2], sell_order(rollover_data), ts2)
         IN [db |-> [r2.db EXCEPT !.up = d.up],
             code |-> IF r1.ret # 0 /\ r2.ret # 0 THEN 201 ELSE 500,
             body |-> IF r1.ret # 0 /\ r2.ret # 0
                      THEN [success |-> TRUE, buy_order_id |-> r1.ret, sell_order_id |-> r2.ret]
                      ELSE RolloverFailed,
             buy_order_id |-> r1.ret, sell_order_id |-> r2.ret]

\* request bodies: a complete one with a per-share limit price, one without a
\* limit price (the handler tests only that each required key is
\* present), one with every optional key, one whose new_expiration is JSON null (the sell INSERT then
\* violates NOT NULL), one lacking quantity
RolloverInputs ==
    { [ticker |-> "NVDA", current_option_type |-> "PUT", current_strike |-> 800,
       current_expiration |-> "20240510", new_strike |-> 820, new_expiration |-> "20240517",
       quantity |-> 2, new_limit_price |-> 3],
      [ticker |-> "AAPL", current_option_type |-> "CALL", current_strike |-> 200,
       current_expiration |-> "20240510", new_strike |-> 210, new_expiration |-> "20240517",
       quantity |-> 1],
      [ticker |-> "AAPL", current_option_type |-> "CALL", current_strike |-> 200,
       current_expiration |-> "20240510", new_strike |-> 210, new_expiration |-> "20240517",
       quantity |-> 1, current_order_type |-> "LIMIT", current_limit_price |-> 150,
       current_bid |-> 1, current_ask |-> 2, new_limit_price |-> 2, new_bid |-> 2, new_ask |-> 3],
      [ticker |-> "AAPL", current_option_type |-> "CALL", current_strike |-> 200,
       current_expiration |-> "20240510", new_strike |-> 210, new_expiration |-> "NULL",
       quantity |-> 1, new_limit_price |-> 3],
      [ticker |-> "NVDA", current_option_type |-> "PUT", current_strike |-> 800,
       current_expiration |-> "20240510", new_strike |-> 820, new_expiration |-> "20240517"] }

Rollover(rollover_data, up1, up2) ==
    /\ db.seq + 2 <= 2 * MaxRollovers
    /\ \E ts2 \in {clock, IF clock < MaxClock THEN clock + 1 ELSE clock} :
          /\ db' = rollover_option(db, rollover_data, clock, ts2, up1, up2).db
          /\ clock' = ts2
    /\ UNCHANGED cacheVars

\* the garbage collector finalises the leaked connection, which releases its lock
Collect ==
    /\ db.locked
    /\ db' = [db EXCEPT !.locked = FALSE]
    /\ UNCHANGED <<clock, cacheVars>>

RolloverNext ==
    \/ \E rd \in RolloverInputs, up1 \in BOOLEAN, up2 \in BOOLEAN : Rollover(rd, up1, up2)
    \/ \E i \in 1..(2 * MaxRollovers) : Delete(i)
    \/ \E i \in 1..(2 * MaxRollovers), q \in QtyInputs : UpdateQuantity(i, q)
    \/ Collect
    \/ ClockTick

RolloverSpec == Init /\ [][RolloverNext]_vars

(***************************************************************************)
(* Schema migration (OptionsDatabase.__init__ -> _migrate_database) on a   *)
(* database file written before the isRollover column existed.             *)
(* Timestamps are seconds; save_order writes them to the second.           *)
(***************************************************************************)
\* the orders table before the migration
LegacyColumns == Columns \ {"isRollover"}

\* datetime(o2.timestamp, '-2 minutes') / '+2 minutes', in seconds
PairWindow == 120

\* a mutant of the BETWEEN test: both ends exclusive
timestamp_between_exclusive(t1, t2) == t1 > t2 - PairWindow /\ t1 < t2 + PairWindow

\* datetime(o1.timestamp) BETWEEN datetime(o2.timestamp, '-2 minutes')
\*                            AND datetime(o2.timestamp, '+2 minutes')
timestamp_between(t1, t2) == t1 >= t2 - PairWindow /\ t1 <= t2 + PairWindow

\* ALTER TABLE orders ADD COLUMN isRollover BOOLEAN DEFAULT 0
add_isRollover_column(rows) ==
    [i \in DOMAIN rows |->
        [c \in Columns |-> IF c = "isRollover" THEN FALSE ELSE rows[i][c]]]

\* the order_pairs query: (buy_id, sell_id) rows of the self-join
order_pairs(rows) ==
    {p \in (DOMAIN rows) \X (DOMAIN rows) :
        LET o1 == rows[p[1]]
            o2 == rows[p[2]]
        IN /\ o1.ticker = o2.ticker
           /\ o1.option_type = o2.option_type
           /\ timestamp_between(o1.timestamp, o2.timestamp)
           /\ o1.action = "BUY" /\ o2.action = "SELL"
           /\ o1.isRollover = FALSE /\ o2.isRollover = FALSE}

\* the UPDATE loop over potential_rollover_pairs
mark_pairs(rows, pairs) ==
    [i \in DOMAIN rows |->
        IF \E p \in pairs : i = p[1] \/ i = p[2]
        THEN [rows[i] EXCEPT !["isRollover"] = TRUE]
        ELSE rows[i]]

\* a mutant of _migrate_database: the pairing query runs before the column is
\* added; on a table without isRollover it raises, and the except clause leaves
\* the database as it was
_migrate_database_pairs_first(d) ==
    IF ~Writable(d) THEN d
    ELSE IF "isRollover" \in d.column_names
         THEN [d EXCEPT !.rows = mark_pairs(d.rows, order_pairs(d.rows))]
         ELSE d

\* a mutant of _migrate_database: the pairing pass is outside the test for the
\* missing column and runs at every start
_migrate_database_always_pairs(d) ==
    IF ~Writable(d) THEN d
    ELSE LET rows == IF "isRollover" \in d.column_names THEN d.rows
                     ELSE add_isRollover_column(d.rows)
         IN [d EXCEPT !.column_names = @ \cup {"isRollover"},
                      !.rows = mark_pairs(rows, order_pairs(rows))]

\* OptionsDatabase._migrate_database
_migrate_database(d) ==
    IF ~Writable(d) THEN d
    ELSE IF "isRollover" \in d.column_names THEN d
    ELSE LET rows == add_isRollover_column(d.rows)
         IN [d EXCEPT !.column_names = @ \cup {"isRollover"},
                      !.rows = mark_pairs(rows, order_pairs(rows))]

\* _migrate_database when the UPDATE of the pair `bad` raises inside the loop
\* (lines 148-161). ALTER TABLE is not preceded by an implicit BEGIN (sqlite3
\* opens a transaction only before INSERT, UPDATE, DELETE and REPLACE), so the
\* column is already stored; the UPDATEs run so far belong to one open
\* transaction. The exception leaves the loop for the except clause (169-171),
\* which neither commits nor closes: the marks made so far are rolled back with
\* the abandoned connection and no later pair is visited.
_migrate_database_failing(d, bad) ==
    IF ~Writable(d) THEN d
    ELSE IF "isRollover" \in d.column_names THEN d
    ELSE LET rows == add_isRollover_column(d.rows)
         IN IF bad \in order_pairs(rows)
            THEN [d EXCEPT !.column_names = @ \cup {"isRollover"}, !.rows = rows,
                           !.locked = TRUE]
            ELSE _migrate_database(d)

\* orders of a legacy history: ticker, option_type, action
LegacyTemplates ==
    { <<"AAPL", "CALL", "BUY">>, <<"AAPL", "CALL", "SELL">>, <<"AAPL", "PUT", "SELL">>,
      <<"AAPL", "PUT", "BUY">>, <<"NVDA", "CALL", "SELL">> }

\* their timestamps: apart by 0, 1, 120 and 121 seconds
LegacyTimes == {0, 120, 121}

\* a row as stored before the column existed
LegacyRow(id, tpl, ts) ==
    LET row == NewRow(id, [ticker |-> tpl[1], option_type |-> tpl[2], action |-> tpl[3],
                           strike |-> 100, expiration |-> "20240510"], ts)
    IN [c \in LegacyColumns |-> row[c]]

\* histories of at most MaxLegacy orders, ids in order of time
LegacyHistories ==
    {h \in UNION {[1..n -> LegacyTemplates \X LegacyTimes] : n \in 0..MaxLegacy} :
        \A i \in DOMAIN h : \A j \in DOMAIN h : i < j => h[i][2] <= h[j][2]}

LegacyInit ==
    /\ \E h \in LegacyHistories :
          /\ db = [rows |-> [i \in DOMAIN h |-> LegacyRow(i, h[i][1], h[i][2])],
                   seq |-> Len(h), up |-> TRUE, locked |-> FALSE,
                   column_names |-> LegacyColumns]
          /\ clock = IF Len(h) = 0 THEN 0 ELSE h[Len(h)][2]
    /\ CacheInit
    /\ PortfolioIdle
    /\ inflight = [t \in Threads |-> IdleWorker]

\* the application starts: OptionsDatabase.__init__ runs the migration
Open ==
    /\ db' = _migrate_database(db)
    /\ UNCHANGED <<clock, cacheVars>>

\* requests are served only after the constructor has run
DeleteMigrated(order_id) ==
    /\ "isRollover" \in db.column_names
    /\ Delete(order_id)

MigrationNext ==
    \/ Open
    \/ \E i \in 1..MaxLegacy : DeleteMigrated(i)

MigrationSpec == LegacyInit /\ [][MigrationNext]_vars

(***************************************************************************)
(* A store that is listed: orders of two tickers, rollover legs among them,*)
(* created at different times, some canceled, some with a later quantity   *)
(* update (which rewrites the timestamp), some deleted.                    *)
(***************************************************************************)
\* request bodies of POST /order; save_order reads isRollover from the body,
\* and stores the quantity it is given (the route tests only the four required
\* keys)
ListedInputs ==
    { [ticker |-> "NVDA", option_type |-> "PUT", strike |-> 850, expiration |-> "20240510",
       isRollover |-> TRUE],
      [ticker |-> "AAPL", option_type |-> "CALL", strike |-> 200, expiration |-> "20240517",
       quantity |-> 0] }

Create(order_data) ==
    /\ db.seq < MaxListed
    /\ db' = route_save_order(db, order_data, clock).db
    /\ UNCHANGED <<clock, cacheVars>>

ListNext ==
    \/ \E o \in ListedInputs : Create(o)
    \/ \E i \in 1..MaxListed : Cancel(i, "success")
    \/ \E i \in 1..MaxListed : UpdateQuantity(i, 3)
    \/ \E i \in 1..MaxListed : Delete(i)
    \/ ClockTick

ListSpec == Init /\ [][ListNext]_vars

(***************************************************************************)
(* The store as the requests of the API change it, one request at a time:  *)
(* POST /order, POST /rollover, PUT /order/<id>/quantity, POST             *)
(* /execute/<id>, POST /cancel/<id>, DELETE /order/<id>; between requests   *)
(* the application may be restarted, which opens the store again.          *)
(***************************************************************************)
\* request bodies of POST /order: the two legs of a position closed and
\* reopened by hand, neither flagged as a rollover
ServiceInputs ==
    { [ticker |-> "AAPL", option_type |-> "CALL", strike |-> 200, expiration |-> "20240510",
       action |-> "BUY"],
      [ticker |-> "AAPL", option_type |-> "CALL", strike |-> 210, expiration |-> "20240517",
       action |-> "SELL", quantity |-> 2] }

\* rollover bodies that carry every required key and non-null values
ServiceRollovers ==
    {rd \in RolloverInputs :
        /\ rollover_required_fields \subseteq DOMAIN rd
        /\ rd.new_expiration # "NULL" /\ "new_limit_price" \in DOMAIN rd
        /\ "current_bid" \notin DOMAIN rd}

ServiceIds == 1..(MaxListed + 2 * MaxRollovers)

ServiceNext ==
    \/ \E o \in ServiceInputs : Create(o)
    \/ \E rd \in ServiceRollovers : Rollover(rd, TRUE, TRUE)
    \/ \E i \in ServiceIds, q \in QtyInputs : UpdateQuantity(i, q)
    \/ \E i \in ServiceIds : Execute(i)
    \/ \E i \in ServiceIds, e \in ExternalOutcomes : Cancel(i, e)
    \/ \E i \in ServiceIds : Delete(i)
    \/ Open

ServiceSpec == Init /\ [][ServiceNext]_vars

(***************************************************************************)
(* Requests served concurrently (run_api.py: waitress threads, gunicorn    *)
(* workers). Every database method opens its own connection and runs its   *)
(* statements one by one, so the statements of other requests run between  *)
(* a handler's read and its write. inflight[t] is the request worker t is  *)
(* serving: pc names the statement it runs next, code is the HTTP status   *)
(* it has answered with.                                                   *)
(***************************************************************************)
restVars == <<clock, holdings_cache, cache_time, primary_account_id, now, ticks, provider, lastOk, th,
              portfolio>>

Returned(w, code) == [w EXCEPT !.pc = "returned", !.code = code]

\* PUT /order/<id>/quantity, routes/options.py 349-375: the quantity test, then
\* db.get_order and the status test
QuantityRoute(t, order_id, quantity) ==
    /\ inflight[t].pc \in {"idle", "returned"}
    /\ LET w == [op |-> "quantity", pc |-> "select", order_id |-> order_id,
                 quantity |-> quantity, code |-> 0]
           o == get_order(db, order_id)
       IN inflight' = [inflight EXCEPT ![t] =
             IF quantity <= 0 THEN Returned(w, 400)
             ELSE IF ~o.found THEN Returned(w, 404)
             ELSE IF o.row.status # "pending" THEN Returned(w, 400)
             ELSE w]
    /\ UNCHANGED <<db, restVars>>

\* update_order_quantity, database.py 391-409: connect, SELECT status and the
\* two early returns; the route answers 500 to False
QuantitySelect(t) ==
    /\ inflight[t].op = "quantity" /\ inflight[t].pc = "select"
    /\ LET w == inflight[t]
       IN inflight' = [inflight EXCEPT ![t] =
             IF ~db.up \/ w.order_id \notin DOMAIN orders THEN Returned(w, 500)
             ELSE IF orders[w.order_id].status # "pending" THEN Returned(w, 500)
             ELSE [w EXCEPT !.pc = "update"]]
    /\ UNCHANGED <<db, restVars>>

\* update_order_quantity, database.py 412-430: UPDATE orders SET quantity = ?,
\* timestamp = ? WHERE id = ?, commit, and the row count
QuantityUpdate(t) ==
    /\ inflight[t].op = "quantity" /\ inflight[t].pc = "update"
    /\ LET w == inflight[t]
           ok == Writable(db) /\ w.order_id \in DOMAIN orders
       IN /\ db' = IF ok
                   THEN [db EXCEPT !.rows[w.order_id].quantity = w.quantity,
                                   !.rows[w.order_id].timestamp = clock]
                   ELSE db
          /\ inflight' = [inflight EXCEPT ![t] = Returned(w, IF ok THEN 200 ELSE 500)]
    /\ UNCHANGED restVars

\* cancel_order, options_service.py 206-209: db.get_order and the 404
CancelLookup(t, order_id) ==
    /\ inflight[t].pc \in {"idle", "returned"}
    /\ LET w == [op |-> "cancel", pc |-> "mark", order_id |-> order_id, quantity |-> 0, code |-> 0]
       IN inflight' = [inflight EXCEPT ![t] =
             IF get_order(db, order_id).found THEN w ELSE Returned(w, 404)]
    /\ UNCHANGED <<db, restVars>>

\* cancel_order, options_service.py 211-217: db.update_order_status, whose
\* result is not looked at, and the 200
CancelMark(t) ==
    /\ inflight[t].op = "cancel" /\ inflight[t].pc = "mark"
    /\ db' = update_order_status(db, inflight[t].order_id, "canceled", TRUE, cancel_details).db
    /\ inflight' = [inflight EXCEPT ![t] = Returned(inflight[t], 200)]
    /\ UNCHANGED restVars

\* the storage stops accepting statements (disk, file permissions), and recovers
StorageFails ==
    /\ db.up
    /\ db' = [db EXCEPT !.up = FALSE]
    /\ UNCHANGED <<clock, cacheVars>>

StorageRecovers ==
    /\ ~db.up
    /\ db' = [db EXCEPT !.up = TRUE]
    /\ UNCHANGED <<clock, cacheVars>>

\* DELETE /order/<id> is taken in one step: its get_order only reads, its one
\* DELETE statement is the step that other requests can observe
ConcurrentNext ==
    \/ \E o \in ListedInputs : Submit(o)
    \/ \E i \in OrderIds : Delete(i)
    \/ \E t \in Threads, i \in OrderIds, q \in QtyInputs : QuantityRoute(t, i, q)
    \/ \E t \in Threads : QuantitySelect(t)
    \/ \E t \in Threads : QuantityUpdate(t)
    \/ \E t \in Threads, i \in OrderIds : CancelLookup(t, i)
    \/ \E t \in Threads : CancelMark(t)
    \/ StorageFails
    \/ StorageRecovers

ConcurrentSpec == Init /\ [][ConcurrentNext]_vars

(***************************************************************************)
(* Claims about the order ledger (specification Spec).                     *)
(***************************************************************************)
ValidTransitions ==
    {<<"pending", "processing">>, <<"pending", "canceled">>,
     <<"processing", "completed">>, <<"processing", "canceled">>}

FailedOutcomes == {"empty", "none", "raise"}

\* C1: every change of an order's status made by any step is one of
\* pending->processing, pending->canceled, processing->completed,
\* processing->canceled; in particular no order leaves completed or canceled, and
\* a request for any other transition leaves the row's status as it was.
C1_OnlyValidTransitions ==
    [][\A i \in (DOMAIN orders) \cap (DOMAIN orders') :
          orders'[i].status # orders[i].status
             => <<orders[i].status, orders'[i].status>> \in ValidTransitions]_vars

\* C2: for every existing order id, update_order_status with any status, any
\* executed flag and any execution_details (absent and empty included) returns
\* true and leaves the row with exactly that status and that executed flag.
C2_UpdateStatusSetsBoth ==
    \A i \in DOMAIN orders, s \in Statuses, x \in BOOLEAN, e \in DetailInputs :
        LET r == update_order_status(db, i, s, x, e)
        IN r.ret /\ r.db.rows[i].status = s /\ r.db.rows[i].executed = x

\* C3: in every reachable state, cancelling an existing order that is pending or
\* processing reports success and leaves the stored status canceled (a terminal
\* state), whatever the outcome of the cancel at the external venue. The handler
\* is synchronous, so the terminal state is reached by the time it returns.
C3_CancelEndsCanceled ==
    \A i \in DOMAIN orders, e \in ExternalOutcomes :
        orders[i].status \in {"pending", "processing"}
           => LET r == cancel_order(db, i, e)
              IN /\ r.code = 200
                 /\ i \in DOMAIN r.db.rows
                 /\ r.db.rows[i].status = "canceled"

\* C3 witness: a processing order exists and cancel, with the venue unreachable,
\* turns it canceled.
C3_Witness ==
    \E i \in DOMAIN orders :
        /\ orders[i].status = "processing"
        /\ cancel_order(db, i, "unreachable").db.rows[i].status = "canceled"

C5_UpdateQuantityIff ==
    \A i \in OrderIds, q \in QtyInputs :
        LET r == route_update_order_quantity(db, i, q, clock)
        IN IF i \in DOMAIN orders /\ orders[i].status = "pending" /\ q > 0
           THEN /\ r.code = 200
                /\ r.db = [db EXCEPT !.rows[i].quantity = q, !.rows[i].timestamp = clock]
           ELSE r.code # 200 /\ r.db = db

\* C5 witness: an order whose quantity was updated to 3 at a later time than its
\* creation and which has since left pending, so that further updates are refused.
C5_Witness ==
    \E i \in DOMAIN orders :
        /\ orders[i].quantity = 3 /\ orders[i].timestamp = MaxClock
        /\ orders[i].status = "completed"
        /\ route_update_order_quantity(db, i, 3, clock).code = 400

(***************************************************************************)
(* Claims about the holdings cache. "Fetch at time t" and "call at time u" *)
(* are the current_time values the calls read at line 76, which is what    *)
(* the method stamps.                                                      *)
(***************************************************************************)
Age(t) == th[t].current_time - th[t].preOk.at

\* C6 (one request at a time): a call made less than CACHE_DURATION seconds
\* after the last successful fetch makes no upstream call and returns that
\* fetch's content, even if the provider's data has changed; a call made
\* CACHE_DURATION seconds or more after it makes exactly one upstream call.
C6_TimeWindow ==
    \A t \in Threads :
        (th[t].pc = "done" /\ Truthy(th[t].preOk))
           => /\ Age(t) < 60
                   => /\ th[t].ncalls = 0
                      /\ Truthy(th[t].res)
                      /\ th[t].res.ver = th[t].preOk.ver
              /\ Age(t) >= 60 => th[t].ncalls = 1

\* C6 witness: a call exactly 60 seconds after the last successful fetch has
\* made its one upstream call.
C6_Witness ==
    \E t \in Threads :
        th[t].pc = "done" /\ Truthy(th[t].preOk) /\ Age(t) = 60 /\ th[t].ncalls = 1

\* C7 (one request at a time): a call whose upstream fetch failed returns a
\* failure (None or an exception), never a snapshot, and leaves holdings_cache
\* and cache_time as they were when the call began.
C7_FailureLeavesCache ==
    \A t \in Threads :
        (th[t].pc = "done" /\ th[t].outcome \in FailedOutcomes)
           => /\ ~Truthy(th[t].res)
              /\ holdings_cache = th[t].preCache
              /\ cache_time = th[t].preTime

\* C7 witness: a fetch failed while a snapshot was cached.
C7_Witness ==
    \E t \in Threads :
        /\ th[t].pc = "done" /\ th[t].outcome = "none"
        /\ Truthy(th[t].preCache) /\ th[t].res = NoHoldings

C9_SingleInFlight ==
    Cardinality({t \in Threads : th[t].pc = "inflight"}) <= 1

\* C10 (threads): a call served from the cache returns the snapshot that was
\* fetched by the call whose time the freshness check used: no caller sees a
\* snapshot paired with another fetch's timestamp.
C10_NoTornObservation ==
    \A t \in Threads :
        (th[t].pc = "done" /\ th[t].hit) => th[t].res.at = th[t].seen

(***************************************************************************)
(* Claims about POST /rollover (specification RolloverSpec).               *)
(***************************************************************************)
ValidRollover(rd) == rollover_required_fields \subseteq DOMAIN rd

\* C11: for every pair of rows a rollover request creates, both rows have
\* isRollover true, the first has action BUY and the second SELL, and the sell
\* row stores a limit price equal to 100 times the per-unit price of the request.
C11_RolloverPairStored ==
    \A rd \in RolloverInputs :
        LET r == rollover_option(db, rd, clock, clock, TRUE, TRUE)
        IN r.code = 201
             => LET b == r.db.rows[r.buy_order_id]
                    s == r.db.rows[r.sell_order_id]
                IN /\ b.isRollover /\ s.isRollover
                   /\ b.action = "BUY" /\ s.action = "SELL"
                   /\ "limit_price" \in DOMAIN s
                   /\ s.limit_price = 100 * Get(rd, "new_limit_price", 0)

\* C12: when exactly one of the two inserts of a rollover request fails, the row
\* of the other leg is in the store after the request, with isRollover true and
\* status pending, and the rows already stored are unchanged.
C12_NoRollback ==
    \A rd \in RolloverInputs, up1 \in BOOLEAN, up2 \in BOOLEAN :
        LET r == rollover_option(db, rd, clock, clock, up1, up2)
            stored == {r.buy_order_id, r.sell_order_id} \ {0}
        IN (ValidRollover(rd) /\ Cardinality(stored) = 1 /\ r.buy_order_id # r.sell_order_id)
             => /\ r.code = 500
                /\ DOMAIN r.db.rows = DOMAIN orders \cup stored
                /\ \A i \in stored :
                      /\ r.db.rows[i].isRollover
                      /\ r.db.rows[i].status = "pending"
                      /\ r.db.rows[i].action = IF i = r.buy_order_id THEN "BUY" ELSE "SELL"
                /\ \A i \in DOMAIN orders : r.db.rows[i] = orders[i]

\* C12 witness: the only row ever inserted is the buy leg of a rollover whose
\* sell insert failed.
C12_Witness ==
    /\ db.seq = 1 /\ 1 \in DOMAIN orders
    /\ orders[1].isRollover /\ orders[1].action = "BUY" /\ orders[1].status = "pending"

\* C13: when exactly one insert of a rollover request fails, the response tells
\* the caller which leg was stored: the response to a request whose buy leg
\* alone was stored differs from the response to the same request whose sell
\* leg alone was stored.
C13_PartialFailureIdentifiesLeg ==
    \A rd \in RolloverInputs :
        ValidRollover(rd)
          => LET a == rollover_option(db, rd, clock, clock, TRUE, FALSE)
                 b == rollover_option(db, rd, clock, clock, FALSE, TRUE)
             IN (a.buy_order_id # 0 /\ a.sell_order_id = 0 /\ b.buy_order_id = 0 /\ b.sell_order_id # 0)
                  => <<a.code, a.body>> # <<b.code, b.body>>

(***************************************************************************)
(* Claims about the migration (specification MigrationSpec).               *)
(***************************************************************************)
\* the pair relation as the claim states it
IsRolloverPair(a, b) ==
    /\ a.ticker = b.ticker
    /\ a.option_type = b.option_type
    /\ a.action = "BUY" /\ b.action = "SELL"
    /\ a.timestamp - b.timestamp <= 120
    /\ b.timestamp - a.timestamp <= 120

\* C14: on every order history, before or after a first migration, running the
\* migration twice gives the same schema and the same rows (so the same marked
\* set) as running it once, and after it every row has the isRollover column.
C14_MigrationIdempotent ==
    LET m1 == _migrate_database(db)
        m2 == _migrate_database(m1)
    IN /\ m2 = m1
       /\ m1.column_names = Columns
       /\ \A i \in DOMAIN m1.rows : DOMAIN m1.rows[i] = Columns

\* C14 witness: a migrated history in which the pairing marked some row and left
\* another unmarked.
C14_Witness ==
    /\ "isRollover" \in db.column_names
    /\ \E i \in DOMAIN orders : orders[i].isRollover
    /\ \E i \in DOMAIN orders : ~orders[i].isRollover

\* C15: migrating a legacy history marks an order exactly when it is the BUY or
\* the SELL of at least one pair with equal ticker and option_type and
\* timestamps at most 120 seconds apart, and changes no other column, adds no
\* row and removes none.
C15_PairerMarksExactlyPairs ==
    "isRollover" \notin db.column_names
      => LET m == _migrate_database(db)
         IN /\ DOMAIN m.rows = DOMAIN orders
            /\ \A i \in DOMAIN orders :
                  /\ m.rows[i].isRollover
                       <=> \E j \in DOMAIN orders :
                              IsRolloverPair(orders[i], orders[j]) \/ IsRolloverPair(orders[j], orders[i])
                  /\ \A c \in LegacyColumns : m.rows[i][c] = orders[i][c]

\* C15 witness: a migrated history where one BUY is paired with a SELL exactly
\* 120 seconds later (both marked) and a second SELL one second after that is
\* left unmarked.
C15_Witness ==
    /\ "isRollover" \in db.column_names
    /\ \E i \in DOMAIN orders, j \in DOMAIN orders, k \in DOMAIN orders :
          /\ orders[i].action = "BUY" /\ orders[i].isRollover
          /\ orders[j].action = "SELL" /\ orders[j].isRollover
          /\ orders[j].timestamp = orders[i].timestamp + 120
          /\ orders[k].action = "SELL" /\ ~orders[k].isRollover
          /\ orders[k].ticker = orders[i].ticker /\ orders[k].option_type = orders[i].option_type
          /\ orders[k].timestamp = orders[i].timestamp + 121

(***************************************************************************)
(* Claims about updateStatus, delete and create.                           *)
(***************************************************************************)
\* execution_details the partial-update claim is checked for
PartialDetails ==
    DetailInputs \cup
    { [kind |-> "dict", d |-> [filled |-> 2]],
      [kind |-> "dict", d |-> [ib_order_id |-> "X1", is_mock |-> TRUE]],
      [kind |-> "dict", d |-> [remaining |-> 2, avg_fill_price |-> 5, note |-> "n"]],
      [kind |-> "dict", d |-> [bogus |-> 7, quantity |-> 9, ticker |-> "ZZZ"]] }

\* the keys the claim calls recognized (external_order_id and external_status are
\* the keys ib_order_id and ib_status of the code)
RecognizedKeys == {"ib_order_id", "ib_status", "filled", "remaining", "avg_fill_price", "is_mock"}

\* C16: update_order_status on an id that is not stored returns false and leaves
\* the database as it was (no row created, no row changed), and cancel_order on
\* such an id answers 404 and changes nothing.
C16_UpdateStatusNotFound ==
    \A i \in OrderIds \ DOMAIN orders :
        /\ \A s \in Statuses, x \in BOOLEAN, e \in DetailInputs :
              LET r == update_order_status(db, i, s, x, e)
              IN ~r.ret /\ r.db = db
        /\ \A e \in ExternalOutcomes :
              LET r == cancel_order(db, i, e)
              IN r.code = 404 /\ r.db = db

\* C16 witness: an order is stored and another id was never assigned; the update
\* of that id with execution details is refused.
C16_Witness ==
    /\ DOMAIN orders # {}
    /\ \E i \in OrderIds :
          /\ i > db.seq
          /\ ~update_order_status(db, i, "completed", TRUE,
                                  [kind |-> "dict", d |-> [filled |-> 1]]).ret

\* C17: for every stored order and every non-empty execution_details,
\* update_order_status succeeds and, apart from status and executed, each
\* column whose recognized key is present holds the supplied value and every
\* other column of the row, and every other row, is unchanged; with empty
\* execution_details no column changes.
C17_PartialUpdate ==
    \A i \in DOMAIN orders, s \in Statuses, x \in BOOLEAN, e \in PartialDetails :
        LET r == update_order_status(db, i, s, x, e)
        IN IF IsTruthyDict(e)
           THEN /\ r.ret
                /\ DOMAIN r.db.rows = DOMAIN orders
                /\ \A c \in Columns \ {"status", "executed"} :
                      r.db.rows[i][c] = IF c \in RecognizedKeys \cap DOMAIN e.d
                                        THEN e.d[c] ELSE orders[i][c]
                /\ \A j \in DOMAIN orders \ {i} : r.db.rows[j] = orders[j]
           ELSE r.db = db

\* C17 witness: a row updated with {filled, ib_status}: both columns hold the
\* supplied values while ib_order_id, whose key was absent, is still NULL.
C17_Witness ==
    \E i \in DOMAIN orders :
        /\ orders[i].filled = 1 /\ orders[i].ib_status = "Filled"
        /\ orders[i].ib_order_id = "NULL" /\ orders[i].remaining = 0

\* C18: deleting an order whose executed flag is set is refused and leaves the
\* row in place.
C18_NoDeleteOfExecuted ==
    \A i \in DOMAIN orders :
        orders[i].executed
          => LET r == route_delete_order(db, i)
             IN r.code # 200 /\ r.db = db

\* C19: with the storage working, delete_order returns true exactly when the id
\* is stored; after a successful delete get_order finds nothing, no list result
\* contains the id, and every other row is unchanged; an unsuccessful delete
\* changes nothing.
C19_DeleteIsHardRemoval ==
    Writable(db) =>
      \A i \in 1..(db.seq + 1) :
        LET r == delete_order(db, i)
        IN /\ r.ret <=> i \in DOMAIN orders
           /\ ~r.ret => r.db = db
           /\ r.ret =>
                /\ ~get_order(r.db, i).found
                /\ DOMAIN r.db.rows = DOMAIN orders \ {i}
                /\ \A j \in DOMAIN orders \ {i} : r.db.rows[j] = orders[j]
                /\ r.db.seq = db.seq
                /\ \A f \in ListFilters, n \in {1, DEFAULT_LIMIT} :
                      \A res \in get_orders(r.db, f, n) :
                         \A k \in DOMAIN res : res[k].id # i

\* C19 witness: of two orders stored, the first has been deleted and the second
\* is still there; deleting the first again returns false.
C19_Witness ==
    /\ db.seq = 2 /\ DOMAIN orders = {2}
    /\ ~get_order(db, 1).found
    /\ Writable(db) /\ ~delete_order(db, 1).ret

\* request bodies for create: the model's inputs and each of them with one
\* required field removed
CreateInputs ==
    OrderInputs \cup
    { [c \in (DOMAIN o) \ {k} |-> o[c]] : o \in OrderInputs, k \in required_fields }

\* C20: a create request lacking ticker, option_type, strike or expiration is
\* refused as a client error and adds no row; an id is returned exactly when
\* the request succeeded, and it is the id of the row added. A rollover request
\* lacking one of its required fields is refused the same way.
C20_CreateValidatesRequired ==
    /\ \A o \in CreateInputs :
          LET r == route_save_order(db, o, clock)
          IN /\ ~(required_fields \subseteq DOMAIN o)
                  => r.code = 400 /\ r.id = 0 /\ r.db = db
             /\ r.id # 0 <=> r.code = 201
             /\ r.id # 0 => r.id \notin DOMAIN orders /\ DOMAIN r.db.rows = DOMAIN orders \cup {r.id}
             /\ r.id = 0 => r.db.rows = orders
    /\ \A rd \in RolloverInputs :
          ~ValidRollover(rd)
            => LET r == rollover_option(db, rd, clock, clock, TRUE, TRUE)
               IN r.code = 400 /\ r.db = db

\* C20 witness: one order has been created, and a request lacking its strike is
\* refused at that state.
C20_Witness ==
    /\ db.seq = 1 /\ 1 \in DOMAIN orders /\ orders[1].status = "pending"
    /\ \E o \in CreateInputs :
          /\ DOMAIN o = {"ticker", "option_type", "expiration", "action", "quantity", "premium", "is_mock"}
          /\ route_save_order(db, o, clock).code = 400

(***************************************************************************)
(* Claims about the stored rows over whole histories.                      *)
(***************************************************************************)
\* C21: in every reachable state of the order store, every stored order has
\* strike > 0 and quantity >= 1.
C21_StrikeAndQuantityPositive ==
    \A i \in DOMAIN orders : orders[i].strike > 0 /\ orders[i].quantity >= 1

\* the fields the claim calls immutable
ImmutableFields == {"id", "ticker", "option_type", "strike", "expiration"}

\* rows of d2 compared with rows of d1: the target row keeps its immutable
\* fields and every other row is the same row; no row appears or disappears
SameBut(d1, d2, order_id) ==
    /\ DOMAIN d2.rows = DOMAIN d1.rows
    /\ \A j \in DOMAIN d1.rows :
          IF j = order_id
          THEN \A c \in ImmutableFields : d2.rows[j][c] = d1.rows[j][c]
          ELSE d2.rows[j] = d1.rows[j]

\* C22: in every reachable state and for every id, update_order_status (with
\* any status, flag and execution_details, keys naming other columns included),
\* the quantity request and cancel leave id, ticker, option_type, strike and
\* expiration of the target row, and every field of every other row, unchanged.
C22_ImmutableFields ==
    \A i \in 1..(db.seq + 1) :
        /\ \A s \in Statuses, x \in BOOLEAN, e \in PartialDetails :
              SameBut(db, update_order_status(db, i, s, x, e).db, i)
        /\ \A q \in QtyInputs :
              /\ SameBut(db, route_update_order_quantity(db, i, q, clock).db, i)
              /\ SameBut(db, update_order_quantity(db, i, q, clock).db, i)
        /\ \A e \in ExternalOutcomes :
              SameBut(db, cancel_order(db, i, e).db, i)

\* C22 witness: two orders are stored; the quantity of the first was updated to
\* 3 and it still has the ticker, strike and expiration it was created with,
\* the second is as created; an update of the first carrying a ticker key is
\* accepted at this state.
C22_Witness ==
    /\ DOMAIN orders = {1, 2} /\ Writable(db)
    /\ orders[1].quantity = 3 /\ orders[1].ticker = "NVDA" /\ orders[1].strike = 850
    /\ orders[1].expiration = "20240510"
    /\ orders[2].quantity = 0 /\ orders[2].ticker = "AAPL" /\ orders[2].strike = 200
    /\ update_order_status(db, 1, "completed", TRUE,
                           [kind |-> "dict", d |-> [bogus |-> 7, quantity |-> 9, ticker |-> "ZZZ"]]).ret

\* C23: db.seq is the largest id ever assigned (sqlite_sequence): every stored id
\* is at most db.seq; every successful create returns db.seq + 1, an id larger
\* than every id assigned before, and advances db.seq to it, whether or not
\* earlier orders have been deleted; a rollover assigns the next two ids in
\* order; no other operation and no failed create changes db.seq.
C23_IdsUniqueIncreasing ==
    /\ \A i \in DOMAIN orders : 1 <= i /\ i <= db.seq /\ orders[i].id = i
    /\ \A o \in CreateInputs :
          LET r == route_save_order(db, o, clock)
          IN IF r.id # 0
             THEN /\ r.id = db.seq + 1 /\ r.db.seq = r.id
                  /\ r.id \notin DOMAIN orders /\ r.db.rows[r.id].id = r.id
             ELSE r.db.seq = db.seq
    /\ \A rd \in RolloverInputs, up1 \in BOOLEAN, up2 \in BOOLEAN :
          LET r == rollover_option(db, rd, clock, clock, up1, up2)
              n == Cardinality({r.buy_order_id, r.sell_order_id} \ {0})
          IN /\ r.db.seq = db.seq + n
             /\ r.buy_order_id # 0 => r.buy_order_id = db.seq + 1
             /\ r.sell_order_id # 0 => r.sell_order_id = r.db.seq
             /\ (r.buy_order_id # 0 /\ r.sell_order_id # 0) => r.buy_order_id < r.sell_order_id
    /\ \A i \in 1..(db.seq + 1) :
          /\ delete_order(db, i).db.seq = db.seq
          /\ \A q \in QtyInputs : update_order_quantity(db, i, q, clock).db.seq = db.seq
          /\ \A s \in Statuses, x \in BOOLEAN, e \in DetailInputs :
                update_order_status(db, i, s, x, e).db.seq = db.seq

\* C23 witness: ids 1 and 2 were assigned and both orders deleted; a create on
\* the empty store returns 3.
C23_Witness ==
    /\ db.seq = 2 /\ DOMAIN orders = {} /\ Writable(db)
    /\ \E o \in OrderInputs : route_save_order(db, o, clock).id = 3

(***************************************************************************)
(* Claims about listings (specification ListSpec).                         *)
(***************************************************************************)
\* filters as the claim has them: each of status (one value or a non-empty set
\* of values), executed, ticker and is_rollover supplied or omitted
ClaimFilters ==
    { <<>>,
      [status |-> "pending"], [status |-> "canceled"],
      [status_filter |-> {"pending", "processing"}], [status_filter |-> {"canceled", "completed"}],
      [executed |-> TRUE], [executed |-> FALSE],
      [ticker |-> "AAPL"], [ticker |-> "NVDA"], [ticker |-> "MSFT"],
      [isRollover |-> TRUE], [isRollover |-> FALSE],
      [status |-> "pending", ticker |-> "AAPL"],
      [status_filter |-> {"pending", "processing"}, executed |-> FALSE, isRollover |-> TRUE],
      [status |-> "canceled", executed |-> TRUE, ticker |-> "NVDA", isRollover |-> TRUE] }

\* limits of the calls examined
ClaimLimits == {0, 1, 2, DEFAULT_LIMIT}

\* a row satisfies every supplied filter
Satisfies(row, f) ==
    /\ "status" \in DOMAIN f => row.status = f.status
    /\ "status_filter" \in DOMAIN f => row.status \in f.status_filter
    /\ "executed" \in DOMAIN f => row.executed = f.executed
    /\ "ticker" \in DOMAIN f => row.ticker = f.ticker
    /\ "isRollover" \in DOMAIN f => row.isRollover = f.isRollover

\* C24: in every reachable state, for every combination of filters and every
\* limit, every list get_orders may return holds only stored rows that satisfy
\* every supplied filter, each at most once, in non-increasing order of
\* timestamp; its length is the smaller of the limit and the number of
\* satisfying rows (all of them under the default limit 50 here), and every
\* satisfying row left out is no more recent than any row kept.
C24_ListFiltersOrderLimit ==
    \A f \in ClaimFilters, n \in ClaimLimits :
        LET sat == {i \in DOMAIN orders : Satisfies(orders[i], f)}
            results == get_orders(db, f, n)
        IN /\ results # {}
           /\ \A res \in results :
                 /\ Len(res) = IF n < Cardinality(sat) THEN n ELSE Cardinality(sat)
                 /\ \A k \in DOMAIN res : res[k].id \in sat /\ res[k] = orders[res[k].id]
                 /\ \A k \in DOMAIN res : \A m \in DOMAIN res :
                       k < m => res[k].id # res[m].id /\ res[k].timestamp >= res[m].timestamp
                 /\ \A i \in sat \ {res[k].id : k \in DOMAIN res} :
                       \A k \in DOMAIN res : orders[i].timestamp <= res[k].timestamp

\* C24 witness: two orders are stored, the first canceled and then the older by
\* timestamp only because the second was created later; the listing limited to
\* one row returns the second, and the listing of canceled orders the first.
C24_Witness ==
    /\ DOMAIN orders = {1, 2}
    /\ orders[1].status = "canceled" /\ orders[2].status = "pending"
    /\ orders[1].timestamp < orders[2].timestamp
    /\ get_orders(db, <<>>, 1) = {<<orders[2]>>}
    /\ get_orders(db, [status |-> "canceled"], DEFAULT_LIMIT) = {<<orders[1]>>}

RECURSIVE HasPath(_, _)
\* the JSON value x has the nested keys of path, ending in a value that is not null
HasPath(x, path) ==
    IF path = <<>> THEN x.t # "null"
    ELSE x.t = "dict" /\ Head(path) \in DOMAIN x.d /\ HasPath(x.d[Head(path)], Tail(path))

RECURSIVE At(_, _)
\* the value at the end of a path that exists
At(x, path) == IF path = <<>> THEN x ELSE At(x.d[Head(path)], Tail(path))

\* a stock entry that can be parsed: it names its symbol and its units and price
\* are numbers
WellFormedStock(e) ==
    /\ HasPath(e, <<"symbol", "symbol", "symbol">>)
    /\ HasPath(e, <<"units">>) /\ HasPath(e, <<"price">>)

\* an option entry that can be parsed: it has the nested underlying-symbol path,
\* an expiration date, and units and price that are numbers
WellFormedOption(e) ==
    /\ HasPath(e, <<"symbol", "option_symbol", "underlying_symbol", "symbol">>)
    /\ HasPath(e, <<"symbol", "option_symbol", "expiration_date">>)
    /\ HasPath(e, <<"units">>) /\ HasPath(e, <<"price">>)

\* C26: whenever the positions request has been answered for a holdings dict,
\* the list returned has exactly one position for each well-formed entry and
\* none for any other entry: first the well-formed stock entries in input order
\* (symbol, units and price of the entry, security_type not OPT), then the
\* well-formed option entries in input order (underlying symbol, units, strike
\* and undashed expiration of the entry, security_type OPT).
C26_NormalizeKeepsWellFormed ==
    (portfolio.result.op = "positions" /\ portfolio.result.type = "NULL"
       /\ portfolio.holdings.t = "dict")
      => LET out == portfolio.result.response.body
             stocks == SelectSeq(portfolio.holdings.d.positions, WellFormedStock)
             options == SelectSeq(portfolio.holdings.d.option_positions, WellFormedOption)
         IN /\ Len(out) = Len(stocks) + Len(options)
            /\ \A k \in DOMAIN stocks :
                  /\ out[k].symbol = At(stocks[k], <<"symbol", "symbol", "symbol">>)
                  /\ out[k].position = stocks[k].d.units
                  /\ out[k].market_price = stocks[k].d.price
                  /\ out[k].security_type # "OPT"
            /\ \A k \in DOMAIN options :
                  LET o == out[Len(stocks) + k]
                      osd == At(options[k], <<"symbol", "option_symbol">>)
                  IN /\ o.symbol = osd.d.underlying_symbol.d.symbol
                     /\ o.position = options[k].d.units
                     /\ o.security_type = "OPT"
                     /\ o.strike = osd.d.strike_price
                     /\ o.option_type \in {"PUT", "CALL"}
                     /\ Len(osd.d.expiration_date.s) = 3 /\ Len(o.expiration) = 1
                     /\ o.expiration[1] = osd.d.expiration_date.s[1] * 10000
                                           + osd.d.expiration_date.s[2] * 100
                                           + osd.d.expiration_date.s[3]

\* C26 witness: the holdings had a stock, an option entry without the
\* underlying-symbol path and a valid option entry after it; the answer is the
\* stock followed by that one option.
C26_Witness ==
    /\ portfolio.result.op = "positions" /\ portfolio.result.type = "NULL"
    /\ portfolio.holdings.t = "dict"
    /\ Len(portfolio.holdings.d.positions) = 1
    /\ Len(portfolio.holdings.d.option_positions) = 2
    /\ ~HasPath(portfolio.holdings.d.option_positions[1], <<"symbol", "option_symbol", "underlying_symbol">>)
    /\ HasPath(portfolio.holdings.d.option_positions[1], <<"symbol", "option_symbol">>)
    /\ Len(portfolio.result.response.body) = 2
    /\ portfolio.result.response.body[1].security_type = "STK"
    /\ portfolio.result.response.body[2].symbol = JStr("NVDA")
    /\ portfolio.result.response.body[2].expiration = <<20240531>>

\* offsets the claim lists, Monday to Sunday
ClaimedOffsets == <<4, 3, 2, 1, 0, 6, 5>>

\* C27: for every weekday the offset to the Friday used is the one listed (0 on
\* a Friday, 4..1 Monday..Thursday, 6 and 5 Saturday and Sunday) and lies in
\* 0..6; and whenever the weekly income has been computed on a day, the Friday it
\* reports is a Friday, is not before that day, and no Friday lies between.
C27_FridayAtOrAfterToday ==
    /\ \A wd \in 0..6 :
          /\ days_until_friday(wd) = ClaimedOffsets[wd + 1]
          /\ days_until_friday(wd) \in 0..6
    /\ (portfolio.result.op = "weekly" /\ "this_friday" \in DOMAIN portfolio.result.response.body)
         => LET today == portfolio.result.today
                this_friday == portfolio.result.response.body.this_friday
            IN /\ this_friday >= today
               /\ weekday(this_friday) = 4
               /\ this_friday - today = ClaimedOffsets[weekday(today) + 1]
               /\ \A d \in today..(this_friday - 1) : weekday(d) # 4

\* C27 witness: the weekly income was computed on a Saturday and reports the
\* Friday six days later.
C27_Witness ==
    /\ portfolio.result.op = "weekly" /\ "this_friday" \in DOMAIN portfolio.result.response.body
    /\ weekday(portfolio.result.today) = 5
    /\ portfolio.result.response.body.this_friday = portfolio.result.today + 6

\* C28: whenever the weekly income has been computed for a holdings dict, its
\* positions are exactly the OPT positions with quantity < 0 and expiration at
\* or before the computed Friday, in order; each has income = avg_cost *
\* |quantity|; a PUT has notional_value = strike * 100 * |quantity| and a CALL
\* has none; total_income is the sum of the incomes, positions_count their
\* number and total_put_notional the sum of the PUT notionals.
C28_WeeklyIncomeSelection ==
    (portfolio.result.op = "weekly" /\ portfolio.holdings.t = "dict")
      => LET body == portfolio.result.response.body
             today == portfolio.result.today
             friday == ymd(today + ClaimedOffsets[weekday(today) + 1])
             opts == get_positions(portfolio.holdings, "OPT")
             expected == SelectSeq(opts, LAMBDA pos :
                            /\ pos.position.n < 0
                            /\ pos.expiration # <<>> /\ pos.expiration[1] <= friday)
             abs(n) == IF n < 0 THEN -n ELSE n
         IN /\ Len(body.positions) = Len(expected)
            /\ body.positions_count = Len(expected)
            /\ \A k \in DOMAIN expected :
                  LET w == body.positions[k]
                      e == expected[k]
                  IN /\ w.symbol = e.symbol /\ w.position = e.position
                     /\ w.expiration = e.expiration /\ w.strike = e.strike
                     /\ w.income = e.avg_cost.n * abs(e.position.n)
                     /\ IF e.option_type = "PUT"
                        THEN w.notional_value = JNum(e.strike.n * 100 * abs(e.position.n))
                        ELSE w.notional_value = JNull
            /\ body.total_income = sum_income(body.positions)
            /\ "total_put_notional" \in DOMAIN body
            /\ body.total_put_notional = sum_put_notional(body.positions)

(***************************************************************************)
(* Claims about storage failures.                                          *)
(***************************************************************************)
\* C29: in every reachable state, when the storage fails, create,
\* update_order_status, update_order_quantity, delete, get and list return
\* their failure value (no id, False, not found, the empty list) and the stored
\* rows are the rows before the call; for update_order_status this holds at
\* whichever of its statements the failure strikes.
C29_FailuresLeaveRowsUnchanged ==
    LET down == [db EXCEPT !.up = FALSE]
    IN /\ \A o \in OrderInputs :
             LET r == save_order(down, o, clock) IN r.ret = 0 /\ r.db.rows = orders
       /\ get_orders(down, <<>>, DEFAULT_LIMIT) = {<<>>}
       /\ \A i \in 1..(db.seq + 1) :
             /\ ~get_order(down, i).found
             /\ LET r == delete_order(down, i) IN ~r.ret /\ r.db.rows = orders
             /\ \A q \in QtyInputs :
                   LET r == update_order_quantity(down, i, q, clock)
                   IN ~r.ret /\ r.db.rows = orders
             /\ \A s \in Statuses, x \in BOOLEAN, e \in DetailInputs :
                   /\ LET r == update_order_status(down, i, s, x, e)
                      IN ~r.ret /\ r.db.rows = orders
                   /\ Writable(db) =>
                         \A at \in StatusStatements :
                            LET r == update_order_status_failing(db, i, s, x, e, at)
                            IN ~r.ret /\ r.db.rows = orders

\* C30: when get_holdings has nothing to return (the fetch failed and no
\* snapshot is cached, holdings is None), the positions request and the
\* weekly-income request do not answer 200 with an empty list and zero totals:
\* their response reports the failure.
C30_FetchFailureSurfaced ==
    (portfolio.holdings = JNull /\ portfolio.result.op \in {"positions", "weekly"})
      => portfolio.result.response.code # 200

(***************************************************************************)
(* Claims about execution, cancellation and the executed flag.             *)
(***************************************************************************)
\* C31: in every reachable state, sending a pending order to execution
\* (POST /execute/<id>) leaves that order with status processing.
C31_ExecuteMovesToProcessing ==
    \A i \in DOMAIN orders :
        orders[i].status = "pending"
          => execute_order(db, i).db.rows[i].status = "processing"

\* C32: under every interleaving of the statements of concurrent quantity,
\* cancel and delete requests, no step changes the quantity of an order whose
\* status is not pending.
C32_QuantityFrozenAfterPending ==
    [][\A i \in (DOMAIN orders) \cap (DOMAIN orders') :
          orders[i].status # "pending" => orders'[i].quantity = orders[i].quantity]_vars

\* C34: under every interleaving, including a delete of the same id or a
\* storage failure between cancel's lookup and its status write, a cancel that
\* answers 200 for an order id returns at a state where that order is stored
\* with status canceled.
C34_CancelSuccessMeansCanceled ==
    [][\A t \in Threads :
          (inflight[t].pc = "mark" /\ inflight'[t].pc = "returned" /\ inflight'[t].code = 200)
            => /\ inflight'[t].order_id \in DOMAIN orders'
               /\ orders'[inflight'[t].order_id].status = "canceled"]_vars

(***************************************************************************)
(* Claims about the migration under failures and on migrated databases.    *)
(***************************************************************************)
\* C33: on every legacy database, when marking one inferred pair fails during
\* the migration, both orders of every other inferred pair are stored with
\* isRollover = true.
C33_PairingPartialFailure ==
    ("isRollover" \notin db.column_names /\ Writable(db))
      => LET pairs == order_pairs(add_isRollover_column(db.rows))
         IN \A bad \in pairs :
               LET rows == _migrate_database_failing(db, bad).rows
               IN \A p \in pairs \ {bad} :
                     rows[p[1]].isRollover /\ rows[p[2]].isRollover

\* C35: in every state reached through the requests of the API (create,
\* rollover, quantity update, execute, cancel, delete), an order's executed flag
\* is true exactly when its status is canceled, every order that is not
\* canceled is pending or processing, and, with a limit that does not
\* truncate, every stored order is in exactly one of
\* get_pending_orders(executed=False) and get_pending_orders(executed=True).
C35_ExecutedIffCanceled ==
    /\ \A i \in DOMAIN orders :
          /\ orders[i].executed <=> orders[i].status = "canceled"
          /\ ~orders[i].executed => orders[i].status \in {"pending", "processing"}
    /\ \A open \in get_pending_orders(db, FALSE, DEFAULT_LIMIT, <<>>),
          done \in get_pending_orders(db, TRUE, DEFAULT_LIMIT, <<>>) :
          \A i \in DOMAIN orders :
             /\ (\E k \in DOMAIN open : open[k] = orders[i])
                   # (\E k \in DOMAIN done : done[k] = orders[i])
             /\ (\E k \in DOMAIN done : done[k] = orders[i]) <=> orders[i].executed

\* C35 witness: of two stored orders the first was canceled and is the one
\* order listed as executed, the second is pending and is the one order listed
\* as not executed.
C35_Witness ==
    /\ DOMAIN orders = {1, 2}
    /\ orders[1].status = "canceled" /\ orders[1].executed
    /\ orders[2].status = "pending" /\ ~orders[2].executed
    /\ get_pending_orders(db, TRUE, DEFAULT_LIMIT, <<>>) = {<<orders[1]>>}
    /\ get_pending_orders(db, FALSE, DEFAULT_LIMIT, <<>>) = {<<orders[2]>>}

\* C36: in every reachable state and for every stored order, cancelling it and
\* cancelling it again answers 200 both times, the second cancel leaves the
\* store exactly as the first left it, and in that store the order has status
\* canceled, executed true and every other column as before the first cancel;
\* no other row changes.
C36_CancelIdempotent ==
    \A i \in DOMAIN orders, e1 \in ExternalOutcomes, e2 \in ExternalOutcomes :
        LET r1 == cancel_order(db, i, e1)
            r2 == cancel_order(r1.db, i, e2)
        IN /\ r1.code = 200 /\ r2.code = 200
           /\ r2.db = r1.db
           /\ Writable(db) =>
                 r1.db = [db EXCEPT !.rows[i].status = "canceled", !.rows[i].executed = TRUE]

\* C36 witness: order 1 is pending with its quantity updated to 3; the first
\* cancel changes it to canceled, the second is accepted and changes nothing.
C36_Witness ==
    /\ 1 \in DOMAIN orders /\ orders[1].status = "pending" /\ orders[1].quantity = 3
    /\ Writable(db)
    /\ LET r1 == cancel_order(db, 1, "success")
       IN /\ r1.db # db /\ r1.db.rows[1].status = "canceled" /\ r1.db.rows[1].quantity = 3
          /\ cancel_order(r1.db, 1, "success") = [db |-> r1.db, code |-> 200]

\* C37: in every state of a store whose orders table has the isRollover column,
\* opening the store (table creation and migration) leaves the database as it
\* is: no row changes, in particular BUY and SELL orders of one contract type
\* created within two minutes of each other keep isRollover = false.
C37_OpenOnMigratedChangesNothing ==
    "isRollover" \in db.column_names => _migrate_database(db) = db

\* C37 witness: orders 1 (BUY) and 2 (SELL) were created by POST /order at the
\* same time and are what the pairing query would select; both are stored with
\* isRollover false and opening the store keeps them so.
C37_Witness ==
    /\ "isRollover" \in db.column_names /\ Writable(db)
    /\ DOMAIN orders = {1, 2}
    /\ <<1, 2>> \in order_pairs(orders)
    /\ ~orders[1].isRollover /\ ~orders[2].isRollover
    /\ \A i \in {1, 2} : ~_migrate_database(db).rows[i].isRollover

(***************************************************************************)
(* Claims about the two Friday computations (specification PortfolioSpec). *)
(***************************************************************************)
\* C38: for every weekday 0..6 the offset (4 - weekday) mod 7 of the weekly
\* income equals the offset get_closest_friday computes by cases; whenever
\* either has been computed on a day, its Friday is the Friday the other
\* computes for that day.
C38_FridayComputationsAgree ==
    /\ \A wd \in 0..6 : days_until_friday(wd) = days_to_add(wd)
    /\ portfolio.result.op = "closest_friday"
         => portfolio.result.response
              = portfolio.result.today + days_until_friday(weekday(portfolio.result.today))
    /\ (portfolio.result.op = "weekly" /\ "this_friday" \in DOMAIN portfolio.result.response.body)
         => portfolio.result.response.body.this_friday = get_closest_friday(portfolio.result.today)

\* C38 witness: get_closest_friday was called on a Sunday and returned the
\* Friday five days later, which is the weekly income's Friday for that day.
C38_Witness ==
    /\ portfolio.result.op = "closest_friday"
    /\ weekday(portfolio.result.today) = 6
    /\ portfolio.result.response = portfolio.result.today + 5
    /\ days_until_friday(6) = 5

====
